---- MODULE Spec2Model ----
(***************************************************************************)
(* A model of systemd's journal gateway (src/journal/journal-gatewayd.c):  *)
(* the request router, the Entries / Fields / Machine handlers, the two    *)
(* pull-based body readers ("chunk pumps") and the completion callback,    *)
(* running against an append-only journal.                                 *)
(*                                                                         *)
(* Pointers are modelled as tuples: NULL is the empty tuple and a pointer  *)
(* to v is <<v>>.  C strings that the code scans (the Range header, the    *)
(* cursor) are sequences of one-character strings; strings that are only   *)
(* compared are TLA+ strings.  A byte of a serialized entry is the pair    *)
(* <<entry number, offset in the record>>, so that any reordering,         *)
(* duplication or loss of bytes is visible.                                *)
(***************************************************************************)
EXTENDS Integers, Sequences, FiniteSets, TLC

VARIABLES
    journal,   \* the journal store: the sequence of entries appended so far
    req,       \* per connection: the HTTP request the client sent
    pc,        \* per connection: where the connection is in its life
    meta,      \* per connection: *connection_cls, NULL or <<RequestMeta>>
    resp,      \* per connection: the response queued (status 0: none)
    call,      \* per connection: the locals of a reader call blocked in wait
    hist       \* per connection: what the client and the journal library saw

vars == <<journal, req, pc, meta, resp, call, hist>>

----------------------------------------------------------------------------
(* Bounds of the model *)

\* connections the HTTP runtime serves
NConns == 2
\* entries the journal ever holds
MaxLog == 2
\* largest destination buffer (max) the runtime hands to a reader
MaxBuf == 2
\* reader calls per connection whose offset is not the previous offset plus
\* the bytes that call returned
MaxJumps == 1
\* how far past the bytes already returned such an offset may lie
MaxStride == 2

Conns == 1..NConns

----------------------------------------------------------------------------
(* C helpers *)

NULL == <<>>
Ptr(v) == <<v>>
Deref(p) == p[1]

ENOMEM == 12
EINVAL == 22

Min(a, b) == IF a < b THEN a ELSE b

WHITESPACE == {" ", "\t", "\n", "\r"}
DigitChars == <<"0", "1", "2", "3", "4", "5", "6", "7", "8", "9">>

\* isempty(): a NULL or empty string
isempty(s) == s = ""

\* strspn(s, WHITESPACE): length of the leading run of whitespace
RECURSIVE strspn(_)
strspn(s) ==
    IF s # <<>> /\ Head(s) \in WHITESPACE THEN 1 + strspn(Tail(s)) ELSE 0

\* strcspn(s, WHITESPACE): length of the leading run free of whitespace
RECURSIVE strcspn(_)
strcspn(s) ==
    IF s # <<>> /\ Head(s) \notin WHITESPACE THEN 1 + strcspn(Tail(s)) ELSE 0

\* strchr(s, ':') as the 1-based index of the first ':' at or after from, 0 if none
RECURSIVE strchr(_, _)
strchr(s, from) ==
    IF from > Len(s) THEN 0
    ELSE IF s[from] = ":" THEN from
    ELSE strchr(s, from + 1)

startswith(s, prefix) ==
    /\ Len(s) >= Len(prefix)
    /\ SubSeq(s, 1, Len(prefix)) = prefix

DigitVal(ch) == CHOOSE d \in 0..9 : DigitChars[d + 1] = ch

IsDigit(ch) == \E d \in 1..10 : DigitChars[d] = ch

RECURSIVE DigitsVal(_, _)
DigitsVal(s, acc) ==
    IF s = <<>> THEN acc ELSE DigitsVal(Tail(s), acc * 10 + DigitVal(Head(s)))

AllDigits(s) == s # <<>> /\ \A i \in 1..Len(s) : IsDigit(s[i])

\* safe_atou64(): [r, v]; r < 0 when s is not an unsigned decimal number
\* (the requests drawn hold numbers far below 2^64, so ERANGE never arises)
safe_atou64(s) ==
    IF AllDigits(s)
    THEN [r |-> 0, v |-> DigitsVal(s, 0)]
    ELSE [r |-> -EINVAL, v |-> 0]

\* safe_atoi64(): [r, v]; r < 0 when s is not a signed decimal number
safe_atoi64(s) ==
    IF s # <<>> /\ Head(s) = "-" /\ AllDigits(Tail(s))
    THEN [r |-> 0, v |-> 0 - DigitsVal(Tail(s), 0)]
    ELSE IF AllDigits(s)
    THEN [r |-> 0, v |-> DigitsVal(s, 0)]
    ELSE [r |-> -EINVAL, v |-> 0]

\* parse_boolean(): 1, 0 or -EINVAL
parse_boolean(v) ==
    IF v \in {"1", "yes", "y", "true", "t", "on"} THEN 1
    ELSE IF v \in {"0", "no", "n", "false", "f", "off"} THEN 0
    ELSE -EINVAL

----------------------------------------------------------------------------
(* Output modes and MIME types *)

OUTPUT_SHORT == "short"
OUTPUT_JSON == "json"
OUTPUT_JSON_SSE == "json-sse"
OUTPUT_EXPORT == "export"

mime_types(mode) ==
    CASE mode = OUTPUT_SHORT -> "text/plain"
      [] mode = OUTPUT_JSON -> "application/json"
      [] mode = OUTPUT_JSON_SSE -> "text/event-stream"
      [] mode = OUTPUT_EXPORT -> "application/vnd.fdo.journal"

MHD_HTTP_OK == 200
MHD_HTTP_MOVED_PERMANENTLY == 301
MHD_HTTP_BAD_REQUEST == 400
MHD_HTTP_NOT_FOUND == 404
MHD_HTTP_INTERNAL_SERVER_ERROR == 500
MHD_HTTP_SERVICE_UNAVAILABLE == 503

----------------------------------------------------------------------------
(* The journal and the journal reader library (sd-journal) *)

\* The boot the gateway runs in, and an earlier one
CurrentBoot == "boot1"
OldBoot == "boot0"

\* The entries a journal may hold: the FOO field, the _BOOT_ID field and the
\* length of the MESSAGE field (0: the entry has no MESSAGE)
EntryKinds ==
    { [foo |-> "bar", boot |-> CurrentBoot, msg |-> 2],
      [foo |-> "baz", boot |-> OldBoot, msg |-> 1],
      [foo |-> "bar", boot |-> CurrentBoot, msg |-> 0] }

\* The cursor string of the i-th entry of the journal
CursorChars == <<"a", "b", "c", "d", "e", "f">>
CursorOf(i) == <<CursorChars[i]>>

\* Whether a string is a well-formed cursor, and the entry it names
IsCursor(s) == Len(s) = 1 /\ \E i \in 1..Len(CursorChars) : CursorChars[i] = s[1]
CursorId(s) == CHOOSE i \in 1..Len(CursorChars) : CursorChars[i] = s[1]

FieldValue(e, field) ==
    CASE field = "FOO" -> e.foo
      [] field = "_BOOT_ID" -> e.boot
      [] OTHER -> "<unset>"

\* A journal handle fresh from sd_journal_open(): positioned before the
\* first entry, no matches, no unique-value query
NewHandle == [loc |-> [type |-> "head", id |-> 0], matches |-> {}, unique |-> NULL]

\* An entry passes the handle's matches when it satisfies every one of them
Matches(j, e) == \A mm \in j.matches : FieldValue(e, mm.field) = mm.value

\* The entries of log L the handle can see
Visible(j, L) == {i \in 1..Len(L) : Matches(j, L[i])}

SetMin(S) == CHOOSE x \in S : \A y \in S : x <= y
SetMax(S) == CHOOSE x \in S : \A y \in S : x >= y

\* sd_journal_add_match()
sd_journal_add_match(j, field, value) ==
    [j EXCEPT !.matches = @ \cup {[field |-> field, value |-> value]}]

sd_journal_seek_head(j) == [j EXCEPT !.loc = [type |-> "head", id |-> 0]]

sd_journal_seek_tail(j) == [j EXCEPT !.loc = [type |-> "tail", id |-> 0]]

\* sd_journal_seek_cursor(): [r, j]; r < 0 when the cursor is malformed
sd_journal_seek_cursor(j, cursor) ==
    IF IsCursor(cursor)
    THEN [r |-> 0, j |-> [j EXCEPT !.loc = [type |-> "seek", id |-> CursorId(cursor)]]]
    ELSE [r |-> -EINVAL, j |-> j]

\* sd_journal_test_cursor(): 1 when the current entry is the cursor's, else 0
sd_journal_test_cursor(j, cursor) ==
    IF j.loc.type = "at" /\ IsCursor(cursor) /\ CursorId(cursor) = j.loc.id THEN 1 ELSE 0

\* The entries after (before) the handle's location
Ahead(j, L) ==
    CASE j.loc.type = "head" -> Visible(j, L)
      [] j.loc.type = "tail" -> {}
      [] j.loc.type = "seek" -> {i \in Visible(j, L) : i >= j.loc.id}
      [] j.loc.type = "at" -> {i \in Visible(j, L) : i > j.loc.id}

Behind(j, L) ==
    CASE j.loc.type = "head" -> {}
      [] j.loc.type = "tail" -> Visible(j, L)
      [] j.loc.type = "seek" -> {i \in Visible(j, L) : i <= j.loc.id}
      [] j.loc.type = "at" -> {i \in Visible(j, L) : i < j.loc.id}

\* sd_journal_next(): [r, j]; r = 1 and the handle on the next entry, or r = 0
sd_journal_next(j, L) ==
    IF Ahead(j, L) = {} THEN [r |-> 0, j |-> j]
    ELSE [r |-> 1, j |-> [j EXCEPT !.loc = [type |-> "at", id |-> SetMin(Ahead(j, L))]]]

sd_journal_previous(j, L) ==
    IF Behind(j, L) = {} THEN [r |-> 0, j |-> j]
    ELSE [r |-> 1, j |-> [j EXCEPT !.loc = [type |-> "at", id |-> SetMax(Behind(j, L))]]]

\* sd_journal_next_skip(j, skip), skip > 0: moves up to skip entries and
\* returns how many it moved (c counts them)
RECURSIVE sd_journal_next_skip(_, _, _, _)
sd_journal_next_skip(j, L, skip, c) ==
    LET n == sd_journal_next(j, L) IN
    IF n.r = 0 THEN [r |-> c, j |-> j]
    ELSE IF skip = 1 THEN [r |-> c + 1, j |-> n.j]
    ELSE sd_journal_next_skip(n.j, L, skip - 1, c + 1)

RECURSIVE sd_journal_previous_skip(_, _, _, _)
sd_journal_previous_skip(j, L, skip, c) ==
    LET n == sd_journal_previous(j, L) IN
    IF n.r = 0 THEN [r |-> c, j |-> j]
    ELSE IF skip = 1 THEN [r |-> c + 1, j |-> n.j]
    ELSE sd_journal_previous_skip(n.j, L, skip - 1, c + 1)

\* sd_journal_query_unique()
sd_journal_query_unique(j, field) ==
    [j EXCEPT !.unique = Ptr([field |-> field, idx |-> 0])]

\* The data sd_journal_enumerate_unique() returns for an entry: NAME=VALUE,
\* as the pair of the field name and its value
UniqueData(e, field) == [name |-> field, value |-> FieldValue(e, field)]

\* The entries that carry the first occurrence of each value of the field
UniqueIdx(L, field) ==
    {i \in 1..Len(L) :
        \A k \in 1..(i - 1) : FieldValue(L[k], field) # FieldValue(L[i], field)}

\* sd_journal_enumerate_unique(): [r, j, i]; r = 1 and the next unique value
\* (that of entry i), or r = 0 when there is none left
sd_journal_enumerate_unique(j, L) ==
    LET u == Deref(j.unique)
        left == {i \in UniqueIdx(L, u.field) : i > u.idx} IN
    IF left = {} THEN [r |-> 0, j |-> j, i |-> 0]
    ELSE [r |-> 1,
          j |-> [j EXCEPT !.unique = Ptr([u EXCEPT !.idx = SetMin(left)])],
          i |-> SetMin(left)]

\* output_journal(): the bytes of an entry in a mode.  The short mode prints
\* the MESSAGE field and nothing for an entry without one; the other modes
\* print every field.
RecLen(e, mode) == IF mode = OUTPUT_SHORT THEN e.msg ELSE e.msg + 1
output_journal(i, e, mode) == [k \in 1..RecLen(e, mode) |-> <<i, k>>]

\* output_field(): the bytes of one unique value (that of entry i) in a
\* mode: { "NAME" : "VALUE" }\n in JSON, VALUE\n otherwise
output_field(i, mode) ==
    IF mode = OUTPUT_JSON
    THEN <<<<i, 0>>, <<i, 1>>, <<i, 2>>>>
    ELSE <<<<i, 1>>, <<i, 2>>>>

----------------------------------------------------------------------------
(* Request State *)

\* new0(RequestMeta, 1): every field zero
NewRequestMeta ==
    [journal |-> NULL, mode |-> OUTPUT_SHORT, cursor |-> NULL, n_skip |-> 0,
     n_entries |-> 0, n_entries_set |-> FALSE, tmp |-> NULL, delta |-> 0,
     size |-> 0, argument_parse_error |-> 0, follow |-> FALSE,
     discrete |-> FALSE, n_fields |-> 0, n_fields_set |-> FALSE]

\* open_journal(): [r, m]; opens the journal unless it is open already
open_journal(m, fault) ==
    IF m.journal # NULL THEN [r |-> 0, m |-> m]
    ELSE IF fault = "open" THEN [r |-> -1, m |-> m]
    ELSE [r |-> 0, m |-> [m EXCEPT !.journal = Ptr(NewHandle)]]

\* request_parse_accept(): [r, m]
request_parse_accept(m, rq) ==
    IF rq.accept = NULL THEN [r |-> 0, m |-> m]
    ELSE [r |-> 0,
          m |-> [m EXCEPT !.mode =
                    IF Deref(rq.accept) = mime_types(OUTPUT_JSON) THEN OUTPUT_JSON
                    ELSE IF Deref(rq.accept) = mime_types(OUTPUT_JSON_SSE) THEN OUTPUT_JSON_SSE
                    ELSE IF Deref(rq.accept) = mime_types(OUTPUT_EXPORT) THEN OUTPUT_EXPORT
                    ELSE OUTPUT_SHORT]]

EntriesPrefix == <<"e", "n", "t", "r", "i", "e", "s", "=">>

\* The end of request_parse_range(): the cursor is cut at its first
\* whitespace, and an empty cursor is freed
request_parse_range_cursor(m) ==
    IF m.cursor = NULL THEN [r |-> -ENOMEM, m |-> m]
    ELSE LET c == SubSeq(Deref(m.cursor), 1, strcspn(Deref(m.cursor))) IN
         [r |-> 0, m |-> [m EXCEPT !.cursor = IF c = <<>> THEN NULL ELSE Ptr(c)]]

\* request_parse_range(): [r, m]
request_parse_range(m, rq, fault) ==
    IF rq.range = NULL THEN [r |-> 0, m |-> m]
    ELSE IF ~startswith(Deref(rq.range), EntriesPrefix) THEN [r |-> 0, m |-> m]
    ELSE
    LET r8 == SubSeq(Deref(rq.range), 9, Len(Deref(rq.range)))
        range == SubSeq(r8, strspn(r8) + 1, Len(r8))
        colon == strchr(range, 1)
    IN
    IF colon = 0
    THEN request_parse_range_cursor(
            [m EXCEPT !.cursor = IF fault = "oom_cursor" THEN NULL ELSE Ptr(range)])
    ELSE
    LET colon2 == strchr(range, colon + 1)
        skip == safe_atoi64(SubSeq(range, colon + 1, colon2 - 1))
        p == SubSeq(range, (IF colon2 # 0 THEN colon2 ELSE colon) + 1, Len(range))
        count == safe_atou64(p)
        m1 == IF colon2 # 0 THEN [m EXCEPT !.n_skip = skip.v] ELSE m
        m2 == IF p # <<>>
              THEN [m1 EXCEPT !.n_entries = count.v, !.n_entries_set = TRUE]
              ELSE m1
    IN
    IF colon2 # 0 /\ fault = "oom_skip" THEN [r |-> -ENOMEM, m |-> m]
    ELSE IF colon2 # 0 /\ skip.r < 0 THEN [r |-> skip.r, m |-> m]
    ELSE IF p # <<>> /\ count.r < 0 THEN [r |-> count.r, m |-> m1]
    ELSE IF p # <<>> /\ count.v <= 0
    THEN [r |-> -EINVAL, m |-> [m1 EXCEPT !.n_entries = count.v]]
    ELSE request_parse_range_cursor(
            [m2 EXCEPT !.cursor =
                IF fault = "oom_cursor" THEN NULL ELSE Ptr(SubSeq(range, 1, colon - 1))])

MHD_YES == 1
MHD_NO == 0

\* request_parse_arguments_match() that accepts the argument and adds no
\* match
request_parse_arguments_match_AddsNone(m, key, value, fault) ==
    [ret |-> MHD_YES, m |-> m]

\* The end of request_parse_arguments_iterator(): KEY=VALUE becomes a match
request_parse_arguments_match(m, key, value, fault) ==
    IF fault = "oom_match"
    THEN [ret |-> MHD_NO, m |-> [m EXCEPT !.argument_parse_error = -ENOMEM]]
    ELSE IF fault = "add_match"
    THEN [ret |-> MHD_NO, m |-> [m EXCEPT !.argument_parse_error = -EINVAL]]
    ELSE [ret |-> MHD_YES,
          m |-> [m EXCEPT !.journal = Ptr(sd_journal_add_match(Deref(@), key, value))]]

\* request_parse_arguments_iterator(): [ret, m] for one key and value
request_parse_arguments_iterator(m, key, value, fault) ==
    IF isempty(key)
    THEN [ret |-> MHD_NO, m |-> [m EXCEPT !.argument_parse_error = -EINVAL]]
    ELSE IF key = "follow"
    THEN IF isempty(value) THEN [ret |-> MHD_YES, m |-> [m EXCEPT !.follow = TRUE]]
         ELSE IF parse_boolean(value) < 0
         THEN [ret |-> MHD_NO,
               m |-> [m EXCEPT !.argument_parse_error = parse_boolean(value)]]
         ELSE [ret |-> MHD_YES, m |-> [m EXCEPT !.follow = (parse_boolean(value) # 0)]]
    ELSE IF key = "discrete"
    THEN IF isempty(value) THEN [ret |-> MHD_YES, m |-> [m EXCEPT !.discrete = TRUE]]
         ELSE IF parse_boolean(value) < 0
         THEN [ret |-> MHD_NO,
               m |-> [m EXCEPT !.argument_parse_error = parse_boolean(value)]]
         ELSE [ret |-> MHD_YES, m |-> [m EXCEPT !.discrete = (parse_boolean(value) # 0)]]
    ELSE IF key = "boot"
    THEN LET r == IF isempty(value) THEN 1 ELSE parse_boolean(value) IN
         IF r < 0
         THEN [ret |-> MHD_NO, m |-> [m EXCEPT !.argument_parse_error = r]]
         ELSE IF r = 0 THEN [ret |-> MHD_YES, m |-> m]
         ELSE IF fault = "boot_id"
         THEN [ret |-> MHD_NO, m |-> m]
         ELSE IF fault = "add_match"
         THEN [ret |-> MHD_NO, m |-> [m EXCEPT !.argument_parse_error = -EINVAL]]
         ELSE [ret |-> MHD_YES,
               m |-> [m EXCEPT !.journal =
                         Ptr(sd_journal_add_match(Deref(@), "_BOOT_ID", CurrentBoot))]]
    ELSE request_parse_arguments_match(m, key, value, fault)

\* MHD_get_connection_values(): calls the iterator on each argument until
\* it returns MHD_NO
RECURSIVE MHD_get_connection_values(_, _, _)
MHD_get_connection_values(m, args, fault) ==
    IF args = <<>> THEN m
    ELSE LET it == request_parse_arguments_iterator(
                       m, Head(args).key, Head(args).value, fault) IN
         IF it.ret = MHD_NO THEN it.m
         ELSE MHD_get_connection_values(it.m, Tail(args), fault)

\* request_parse_arguments(): [r, m]
request_parse_arguments(m, rq, fault) ==
    LET m1 == MHD_get_connection_values(
                  [m EXCEPT !.argument_parse_error = 0], rq.args, fault) IN
    [r |-> m1.argument_parse_error, m |-> m1]

----------------------------------------------------------------------------
(* Responses and handlers *)

\* The failures the environment can inject into one handler call: a failed
\* allocation (oom_*), a failed library or system call
HandlerFaults ==
    {"none", "oom_meta", "open", "oom_skip", "oom_cursor", "boot_id",
     "add_match", "oom_match", "oom_response", "oom_error", "query_unique",
     "file_open", "fstat", "machine_id", "oom_hostname", "usage", "cutoff",
     "oom_json"}

NoResponse == [status |-> 0, ctype |-> "", body |-> ""]

\* respond_oom_internal(): the canned 503
respond_oom_internal ==
    [status |-> MHD_HTTP_SERVICE_UNAVAILABLE, ctype |-> "text/plain",
     body |-> "Out of memory.\n"]

\* respond_error(): the plaintext error response, or the 503 when its own
\* allocations fail
respond_error(code, text, fault) ==
    IF fault = "oom_error" THEN respond_oom_internal
    ELSE [status |-> code, ctype |-> "text/plain", body |-> text]

\* What a handler did: the Request State it leaves, the response it queued,
\* the reader it installed as the body ("none", "entries" or "fields"), the
\* journal seeks it made, and whether an allocation failed on the way
Handled(m, rsp, reader, seeks, oom) ==
    [m |-> m, resp |-> rsp, reader |-> reader, seeks |-> seeks, oom |-> oom]

\* A handler that answers with respond_error()
Failed(m, code, text, fault, seeks, oom) ==
    Handled(m, respond_error(code, text, fault), "none", seeks,
            oom \/ fault = "oom_error")

\* request_handler_entries_seek() that seeks to the tail whatever n_skip is
request_handler_entries_seek_AlwaysTail(m) ==
    IF m.cursor # NULL
    THEN sd_journal_seek_cursor(Deref(m.journal), Deref(m.cursor))
    ELSE [r |-> 0, j |-> sd_journal_seek_tail(Deref(m.journal))]

\* request_handler_entries_seek() that looks at the sign of n_skip before it
\* looks for a cursor
request_handler_entries_seek_SignFirst(m) ==
    IF m.n_skip < 0
    THEN [r |-> 0, j |-> sd_journal_seek_tail(Deref(m.journal))]
    ELSE IF m.cursor # NULL
    THEN sd_journal_seek_cursor(Deref(m.journal), Deref(m.cursor))
    ELSE [r |-> 0, j |-> sd_journal_seek_head(Deref(m.journal))]

\* The seek of request_handler_entries(): [r, j]
request_handler_entries_seek(m) ==
    IF m.cursor # NULL
    THEN sd_journal_seek_cursor(Deref(m.journal), Deref(m.cursor))
    ELSE IF m.n_skip >= 0
    THEN [r |-> 0, j |-> sd_journal_seek_head(Deref(m.journal))]
    ELSE [r |-> 0, j |-> sd_journal_seek_tail(Deref(m.journal))]

\* request_handler_entries_commit() that leaves n_entries as the Range
\* header set it in discrete mode
request_handler_entries_commit_KeepsCount(m, fault) ==
    IF m.discrete /\ m.cursor = NULL
    THEN Failed(m, MHD_HTTP_BAD_REQUEST,
                "Discrete seeks require a cursor specification.\n", fault, 0, FALSE)
    ELSE
    LET sk == request_handler_entries_seek(m)
        m2 == [m EXCEPT !.journal = Ptr(sk.j)]
    IN
    IF sk.r < 0
    THEN Failed(m2, MHD_HTTP_BAD_REQUEST, "Failed to seek in journal.\n", fault, 1, FALSE)
    ELSE IF fault = "oom_response"
    THEN Handled(m2, respond_oom_internal, "none", 1, TRUE)
    ELSE Handled(m2,
                 [status |-> MHD_HTTP_OK, ctype |-> mime_types(m2.mode), body |-> "entries"],
                 "entries", 1, FALSE)

\* request_handler_entries_commit() that seeks before it looks for the
\* cursor of a discrete request
request_handler_entries_commit_SeeksFirst(m, fault) ==
    LET m1 == IF m.discrete
              THEN [m EXCEPT !.n_entries = 1, !.n_entries_set = TRUE]
              ELSE m
        sk == request_handler_entries_seek(m1)
        m2 == [m1 EXCEPT !.journal = Ptr(sk.j)]
    IN
    IF sk.r < 0
    THEN Failed(m2, MHD_HTTP_BAD_REQUEST, "Failed to seek in journal.\n", fault, 1, FALSE)
    ELSE IF m.discrete /\ m.cursor = NULL
    THEN Failed(m2, MHD_HTTP_BAD_REQUEST,
                "Discrete seeks require a cursor specification.\n", fault, 1, FALSE)
    ELSE IF fault = "oom_response"
    THEN Handled(m2, respond_oom_internal, "none", 1, TRUE)
    ELSE Handled(m2,
                 [status |-> MHD_HTTP_OK, ctype |-> mime_types(m2.mode), body |-> "entries"],
                 "entries", 1, FALSE)

\* The part of request_handler_entries() after the arguments are parsed
request_handler_entries_commit(m, fault) ==
    IF m.discrete /\ m.cursor = NULL
    THEN Failed(m, MHD_HTTP_BAD_REQUEST,
                "Discrete seeks require a cursor specification.\n", fault, 0, FALSE)
    ELSE
    LET m1 == IF m.discrete
              THEN [m EXCEPT !.n_entries = 1, !.n_entries_set = TRUE]
              ELSE m
        sk == request_handler_entries_seek(m1)
        m2 == [m1 EXCEPT !.journal = Ptr(sk.j)]
    IN
    IF sk.r < 0
    THEN Failed(m2, MHD_HTTP_BAD_REQUEST, "Failed to seek in journal.\n", fault, 1, FALSE)
    ELSE IF fault = "oom_response"
    THEN Handled(m2, respond_oom_internal, "none", 1, TRUE)
    ELSE Handled(m2,
                 [status |-> MHD_HTTP_OK, ctype |-> mime_types(m2.mode), body |-> "entries"],
                 "entries", 1, FALSE)

\* request_handler_entries()
request_handler_entries(m, rq, fault) ==
    LET o == open_journal(m, fault)
        a == request_parse_accept(o.m, rq)
        g == request_parse_range(a.m, rq, fault)
        u == request_parse_arguments(g.m, rq, fault)
    IN
    IF o.r < 0
    THEN Failed(o.m, MHD_HTTP_INTERNAL_SERVER_ERROR, "Failed to open journal\n",
                fault, 0, FALSE)
    ELSE IF a.r < 0
    THEN Failed(a.m, MHD_HTTP_BAD_REQUEST, "Failed to parse Accept header.\n",
                fault, 0, FALSE)
    ELSE IF g.r < 0
    THEN Failed(g.m, MHD_HTTP_BAD_REQUEST, "Failed to parse Range header.\n",
                fault, 0, g.r = -ENOMEM)
    ELSE IF u.r < 0
    THEN Failed(u.m, MHD_HTTP_BAD_REQUEST, "Failed to parse URL arguments.\n",
                fault, 0, u.r = -ENOMEM)
    ELSE request_handler_entries_commit(u.m, fault)

\* request_handler_fields() that caps the stream at one value
request_handler_fields_CapsAtOne(m, field, rq, fault) ==
    LET o == open_journal(m, fault)
        a == request_parse_accept(o.m, rq)
        m1 == [a.m EXCEPT !.journal = Ptr(sd_journal_query_unique(Deref(@), field)),
                          !.n_fields = 1, !.n_fields_set = TRUE]
    IN
    IF o.r < 0
    THEN Failed(o.m, MHD_HTTP_INTERNAL_SERVER_ERROR, "Failed to open journal\n",
                fault, 0, FALSE)
    ELSE IF fault = "query_unique"
    THEN Failed(a.m, MHD_HTTP_BAD_REQUEST, "Failed to query unique fields.\n",
                fault, 0, FALSE)
    ELSE IF fault = "oom_response"
    THEN Handled(m1, respond_oom_internal, "none", 0, TRUE)
    ELSE Handled(m1,
                 [status |-> MHD_HTTP_OK,
                  ctype |-> mime_types(IF m1.mode = OUTPUT_JSON THEN OUTPUT_JSON
                                       ELSE OUTPUT_SHORT),
                  body |-> "fields"],
                 "fields", 0, FALSE)

\* request_handler_fields()
request_handler_fields(m, field, rq, fault) ==
    LET o == open_journal(m, fault)
        a == request_parse_accept(o.m, rq)
        m1 == [a.m EXCEPT !.journal = Ptr(sd_journal_query_unique(Deref(@), field))]
    IN
    IF o.r < 0
    THEN Failed(o.m, MHD_HTTP_INTERNAL_SERVER_ERROR, "Failed to open journal\n",
                fault, 0, FALSE)
    ELSE IF a.r < 0
    THEN Failed(a.m, MHD_HTTP_BAD_REQUEST, "Failed to parse Accept header.\n",
                fault, 0, FALSE)
    ELSE IF fault = "query_unique"
    THEN Failed(a.m, MHD_HTTP_BAD_REQUEST, "Failed to query unique fields.\n",
                fault, 0, FALSE)
    ELSE IF fault = "oom_response"
    THEN Handled(m1, respond_oom_internal, "none", 0, TRUE)
    ELSE Handled(m1,
                 [status |-> MHD_HTTP_OK,
                  ctype |-> mime_types(IF m1.mode = OUTPUT_JSON THEN OUTPUT_JSON
                                       ELSE OUTPUT_SHORT),
                  body |-> "fields"],
                 "fields", 0, FALSE)

\* request_handler_redirect()
request_handler_redirect(m, target, fault) ==
    IF fault \in {"oom_json", "oom_response"}
    THEN Handled(m, respond_oom_internal, "none", 0, TRUE)
    ELSE Handled(m,
                 [status |-> MHD_HTTP_MOVED_PERMANENTLY, ctype |-> "text/html",
                  body |-> target],
                 "none", 0, FALSE)

\* request_handler_file()
request_handler_file(m, mime_type, fault) ==
    IF fault = "file_open"
    THEN Failed(m, MHD_HTTP_NOT_FOUND, "Failed to open file\n", fault, 0, FALSE)
    ELSE IF fault = "fstat"
    THEN Failed(m, MHD_HTTP_INTERNAL_SERVER_ERROR, "Failed to stat file\n",
                fault, 0, FALSE)
    ELSE IF fault = "oom_response"
    THEN Handled(m, respond_oom_internal, "none", 0, TRUE)
    ELSE Handled(m, [status |-> MHD_HTTP_OK, ctype |-> mime_type, body |-> "file"],
                 "none", 0, FALSE)

\* request_handler_machine() without the test of what open_journal() returned
request_handler_machine_SkipsOpenCheck(m, fault) ==
    LET o == open_journal(m, fault) IN
    IF fault = "machine_id"
    THEN Failed(o.m, MHD_HTTP_INTERNAL_SERVER_ERROR,
                "Failed to determine machine ID\n", fault, 0, FALSE)
    ELSE IF fault = "boot_id"
    THEN Failed(o.m, MHD_HTTP_INTERNAL_SERVER_ERROR,
                "Failed to determine boot ID\n", fault, 0, FALSE)
    ELSE IF fault = "oom_hostname"
    THEN Handled(o.m, respond_oom_internal, "none", 0, TRUE)
    ELSE IF fault \in {"usage", "cutoff"}
    THEN Failed(o.m, MHD_HTTP_INTERNAL_SERVER_ERROR,
                "Failed to determine disk usage\n", fault, 0, FALSE)
    ELSE IF fault \in {"oom_json", "oom_response"}
    THEN Handled(o.m, respond_oom_internal, "none", 0, TRUE)
    ELSE Handled(o.m,
                 [status |-> MHD_HTTP_OK, ctype |-> "application/json",
                  body |-> "machine"],
                 "none", 0, FALSE)

\* request_handler_machine()
request_handler_machine(m, fault) ==
    LET o == open_journal(m, fault) IN
    IF o.r < 0
    THEN Failed(o.m, MHD_HTTP_INTERNAL_SERVER_ERROR, "Failed to open journal\n",
                fault, 0, FALSE)
    ELSE IF fault = "machine_id"
    THEN Failed(o.m, MHD_HTTP_INTERNAL_SERVER_ERROR,
                "Failed to determine machine ID\n", fault, 0, FALSE)
    ELSE IF fault = "boot_id"
    THEN Failed(o.m, MHD_HTTP_INTERNAL_SERVER_ERROR,
                "Failed to determine boot ID\n", fault, 0, FALSE)
    ELSE IF fault = "oom_hostname"
    THEN Handled(o.m, respond_oom_internal, "none", 0, TRUE)
    ELSE IF fault \in {"usage", "cutoff"}
    THEN Failed(o.m, MHD_HTTP_INTERNAL_SERVER_ERROR,
                "Failed to determine disk usage\n", fault, 0, FALSE)
    ELSE IF fault \in {"oom_json", "oom_response"}
    THEN Handled(o.m, respond_oom_internal, "none", 0, TRUE)
    ELSE Handled(o.m,
                 [status |-> MHD_HTTP_OK, ctype |-> "application/json",
                  body |-> "machine"],
                 "none", 0, FALSE)

\* The dispatch of request_handler() once the Request State exists.  A URL
\* is the sequence of its path segments: "/" is <<"">>.
request_handler_dispatch(m, rq, fault) ==
    IF rq.url = <<"">> THEN request_handler_redirect(m, "/browse", fault)
    ELSE IF rq.url = <<"entries">> THEN request_handler_entries(m, rq, fault)
    ELSE IF Len(rq.url) = 2 /\ rq.url[1] = "fields"
    THEN request_handler_fields(m, rq.url[2], rq, fault)
    ELSE IF rq.url = <<"browse">> THEN request_handler_file(m, "text/html", fault)
    ELSE IF rq.url = <<"machine">> THEN request_handler_machine(m, fault)
    ELSE Failed(m, MHD_HTTP_NOT_FOUND, "Not found.\n", fault, 0, FALSE)

----------------------------------------------------------------------------
(* The readers (chunk pumps) *)

\* The failures the environment can inject into one reader call
EntriesFaults ==
    {"none", "advance", "wait", "test_cursor", "tmpfile", "serialize", "ftello",
     "fseeko", "fread"}

FieldsFaults ==
    {"none", "enumerate", "tmpfile", "serialize", "ftello", "fseeko", "fread"}

MHD_CONTENT_READER_END_OF_STREAM == "END_OF_STREAM"
MHD_CONTENT_READER_END_WITH_ERROR == "END_WITH_ERROR"

\* What a reader call did: what it returned ("DATA" with the bytes copied
\* into buf, an end marker, or "WAIT" when it blocks in sd_journal_wait()),
\* the Request State it leaves, its local pos, the records it serialized
\* (entry and bytes, in order) and why it ended the stream
Returned(ret, m, pos, data, emitted, cause) ==
    [ret |-> ret, m |-> m, pos |-> pos, data |-> data, emitted |-> emitted,
     cause |-> cause]

\* Overwrite() without rewind(): the record is written after the old content
Overwrite_Appends(tmp, rec) ==
    LET old == IF tmp = NULL THEN <<>> ELSE Deref(tmp) IN
    Ptr(old \o rec)

\* rewind() and the serializer's writes: the record replaces the start of
\* the temporary file, which is not truncated
Overwrite(tmp, rec) ==
    LET old == IF tmp = NULL THEN <<>> ELSE Deref(tmp) IN
    Ptr(rec \o SubSeq(old, Len(rec) + 1, Len(old)))

\* request_reader_entries_advance() that moves |n_skip| entries, not one more
request_reader_entries_advance_NoExtraStep(m, L) ==
    IF m.n_skip < 0
    THEN sd_journal_previous_skip(Deref(m.journal), L, 0 - m.n_skip, 0)
    ELSE IF m.n_skip > 0
    THEN sd_journal_next_skip(Deref(m.journal), L, m.n_skip, 0)
    ELSE sd_journal_next(Deref(m.journal), L)

\* The advance of request_reader_entries(): [r, j]
request_reader_entries_advance(m, L) ==
    IF m.n_skip < 0
    THEN sd_journal_previous_skip(Deref(m.journal), L, (0 - m.n_skip) + 1, 0)
    ELSE IF m.n_skip > 0
    THEN sd_journal_next_skip(Deref(m.journal), L, m.n_skip + 1, 0)
    ELSE sd_journal_next(Deref(m.journal), L)

\* request_reader_copy() without fseeko(): the read starts where the
\* serializer left the file position, at the end of the record
request_reader_copy_NoSeek(m, pos, max, fault, emitted) ==
    LET n == Min(m.size - pos, max) IN
    IF fault \in {"fseeko", "fread"}
    THEN Returned(MHD_CONTENT_READER_END_WITH_ERROR, m, pos, <<>>, emitted, "error")
    ELSE Returned("DATA", m, pos, SubSeq(Deref(m.tmp), m.size - n + 1, m.size),
                  emitted, "none")

\* request_reader_copy() that does not look at what fseeko() and fread()
\* returned
request_reader_copy_IgnoresFailure(m, pos, max, fault, emitted) ==
    LET n == Min(m.size - pos, max) IN
    Returned("DATA", m, pos, SubSeq(Deref(m.tmp), pos + 1, pos + n), emitted, "none")

\* The end of both readers: fseeko() to pos and fread() of the bytes
request_reader_copy(m, pos, max, fault, emitted) ==
    LET n == Min(m.size - pos, max) IN
    IF fault \in {"fseeko", "fread"}
    THEN Returned(MHD_CONTENT_READER_END_WITH_ERROR, m, pos, <<>>, emitted, "error")
    ELSE Returned("DATA", m, pos, SubSeq(Deref(m.tmp), pos + 1, pos + n), emitted, "none")

\* request_reader_entries_account() without "m->delta += m->size"
request_reader_entries_account_KeepsDelta(m) ==
    [m EXCEPT !.n_entries = IF m.n_entries_set THEN @ - 1 ELSE @,
              !.n_skip = 0]

\* request_reader_entries_account() without "m->n_skip = 0"
request_reader_entries_account_KeepsSkip(m) ==
    [m EXCEPT !.delta = @ + m.size,
              !.n_entries = IF m.n_entries_set THEN @ - 1 ELSE @]

\* request_reader_entries_account() without "m->n_entries -= 1"
request_reader_entries_account_KeepsEntries(m) ==
    [m EXCEPT !.delta = @ + m.size,
              !.n_skip = 0]

\* request_reader_entries_account() with "m->delta += 2 * m->size"
request_reader_entries_account_DeltaTwice(m) ==
    [m EXCEPT !.delta = @ + 2 * m.size,
              !.n_entries = IF m.n_entries_set THEN @ - 1 ELSE @,
              !.n_skip = 0]

\* request_reader_entries_account() that moves delta one byte past the
\* record it leaves
request_reader_entries_account_DeltaPastRecord(m) ==
    [m EXCEPT !.delta = @ + m.size + 1,
              !.n_entries = IF m.n_entries_set THEN @ - 1 ELSE @,
              !.n_skip = 0]

\* request_reader_entries_account() with "m->n_entries -= 2"
request_reader_entries_account_CountsTwice(m) ==
    [m EXCEPT !.delta = @ + m.size,
              !.n_entries = IF m.n_entries_set THEN @ - 2 ELSE @,
              !.n_skip = 0]

\* The bookkeeping of request_reader_entries() between the advance and the
\* serialization of the entry reached
request_reader_entries_account(m) ==
    [m EXCEPT !.delta = @ + m.size,
              !.n_entries = IF m.n_entries_set THEN @ - 1 ELSE @,
              !.n_skip = 0]

\* request_reader_entries_done() without the test of n_entries
request_reader_entries_done_Never(m) == FALSE

\* request_reader_entries_done() stopping one record early
request_reader_entries_done_OneEarly(m) == m.n_entries_set /\ m.n_entries <= 1

\* Whether request_reader_entries() ends the stream before advancing
request_reader_entries_done(m) == m.n_entries_set /\ m.n_entries <= 0

\* request_reader_entries_exhausted() that waits for the journal whether
\* m->follow is set or not
request_reader_entries_exhausted_WaitsAlways(m, pos, fault, emitted) ==
    IF fault = "wait"
    THEN Returned(MHD_CONTENT_READER_END_WITH_ERROR, m, pos, <<>>, emitted, "error")
    ELSE Returned("WAIT", m, pos, <<>>, emitted, "none")

\* request_reader_entries_exhausted() without the test of m->follow
request_reader_entries_exhausted_IgnoresFollow(m, pos, fault, emitted) ==
    Returned(MHD_CONTENT_READER_END_OF_STREAM, m, pos, <<>>, emitted, "exhausted")

\* What request_reader_entries() does when the advance found no entry
request_reader_entries_exhausted(m, pos, fault, emitted) ==
    IF m.follow
    THEN IF fault = "wait"
         THEN Returned(MHD_CONTENT_READER_END_WITH_ERROR, m, pos, <<>>, emitted, "error")
         ELSE Returned("WAIT", m, pos, <<>>, emitted, "none")
    ELSE Returned(MHD_CONTENT_READER_END_OF_STREAM, m, pos, <<>>, emitted, "exhausted")

\* request_reader_entries(), pos being pos - m->delta on entry
RECURSIVE request_reader_entries(_, _, _, _, _, _)

\* request_reader_entries() whose loop, once the spill buffer exists, goes on
\* for pos > m->size only
request_reader_entries_StopsAtEnd(m, pos, max, L, fault, emitted) ==
    IF pos < m.size \/ (pos = m.size /\ m.tmp # NULL)
    THEN request_reader_copy(m, pos, max, fault, emitted)
    ELSE IF request_reader_entries_done(m)
    THEN Returned(MHD_CONTENT_READER_END_OF_STREAM, m, pos, <<>>, emitted, "count")
    ELSE IF fault = "advance"
    THEN Returned(MHD_CONTENT_READER_END_WITH_ERROR, m, pos, <<>>, emitted, "error")
    ELSE
    LET adv == request_reader_entries_advance(m, L)
        mj == [m EXCEPT !.journal = Ptr(adv.j)]
        m1 == request_reader_entries_account(mj)
        i == adv.j.loc.id
        rec == output_journal(i, L[i], m.mode)
        m2 == [m1 EXCEPT !.tmp = Overwrite(m.tmp, rec)]
    IN
    IF adv.r = 0 THEN request_reader_entries_exhausted(m, pos, fault, emitted)
    ELSE IF m.discrete /\ fault = "test_cursor"
    THEN Returned(MHD_CONTENT_READER_END_WITH_ERROR, mj, pos, <<>>, emitted, "error")
    ELSE IF m.discrete /\ sd_journal_test_cursor(adv.j, Deref(m.cursor)) = 0
    THEN Returned(MHD_CONTENT_READER_END_OF_STREAM, mj, pos, <<>>, emitted, "discrete")
    ELSE IF m.tmp = NULL /\ fault = "tmpfile"
    THEN Returned(MHD_CONTENT_READER_END_WITH_ERROR, m1, pos - m.size, <<>>,
                  emitted, "error")
    ELSE IF fault = "serialize"
    THEN Returned(MHD_CONTENT_READER_END_WITH_ERROR,
                  [m1 EXCEPT !.tmp = Overwrite(m.tmp, <<>>)], pos - m.size, <<>>,
                  emitted, "error")
    ELSE IF fault = "ftello"
    THEN Returned(MHD_CONTENT_READER_END_WITH_ERROR, m2, pos - m.size, <<>>,
                  emitted, "error")
    ELSE request_reader_entries(
             [m2 EXCEPT !.size = Len(rec)], pos - m.size, max, L, fault,
             Append(emitted, [id |-> i, bytes |-> rec]))

\* request_reader_entries(): the loop and the copy
request_reader_entries(m, pos, max, L, fault, emitted) ==
    IF pos < m.size THEN request_reader_copy(m, pos, max, fault, emitted)
    ELSE IF request_reader_entries_done(m)
    THEN Returned(MHD_CONTENT_READER_END_OF_STREAM, m, pos, <<>>, emitted, "count")
    ELSE IF fault = "advance"
    THEN Returned(MHD_CONTENT_READER_END_WITH_ERROR, m, pos, <<>>, emitted, "error")
    ELSE
    LET adv == request_reader_entries_advance(m, L)
        mj == [m EXCEPT !.journal = Ptr(adv.j)]
        m1 == request_reader_entries_account(mj)
        i == adv.j.loc.id
        rec == output_journal(i, L[i], m.mode)
        m2 == [m1 EXCEPT !.tmp = Overwrite(m.tmp, rec)]
    IN
    IF adv.r = 0 THEN request_reader_entries_exhausted(m, pos, fault, emitted)
    ELSE IF m.discrete /\ fault = "test_cursor"
    THEN Returned(MHD_CONTENT_READER_END_WITH_ERROR, mj, pos, <<>>, emitted, "error")
    ELSE IF m.discrete /\ sd_journal_test_cursor(adv.j, Deref(m.cursor)) = 0
    THEN Returned(MHD_CONTENT_READER_END_OF_STREAM, mj, pos, <<>>, emitted, "discrete")
    ELSE IF m.tmp = NULL /\ fault = "tmpfile"
    THEN Returned(MHD_CONTENT_READER_END_WITH_ERROR, m1, pos - m.size, <<>>,
                  emitted, "error")
    ELSE IF fault = "serialize"
    THEN Returned(MHD_CONTENT_READER_END_WITH_ERROR,
                  [m1 EXCEPT !.tmp = Overwrite(m.tmp, <<>>)], pos - m.size, <<>>,
                  emitted, "error")
    ELSE IF fault = "ftello"
    THEN Returned(MHD_CONTENT_READER_END_WITH_ERROR, m2, pos - m.size, <<>>,
                  emitted, "error")
    ELSE request_reader_entries(
             [m2 EXCEPT !.size = Len(rec)], pos - m.size, max, L, fault,
             Append(emitted, [id |-> i, bytes |-> rec]))

\* request_reader_fields(), pos being pos - m->delta on entry
RECURSIVE request_reader_fields(_, _, _, _, _, _)
request_reader_fields(m, pos, max, L, fault, emitted) ==
    IF pos < m.size THEN request_reader_copy(m, pos, max, fault, emitted)
    ELSE IF m.n_fields_set /\ m.n_fields <= 0
    THEN Returned(MHD_CONTENT_READER_END_OF_STREAM, m, pos, <<>>, emitted, "count")
    ELSE IF fault = "enumerate"
    THEN Returned(MHD_CONTENT_READER_END_WITH_ERROR, m, pos, <<>>, emitted, "error")
    ELSE
    LET enum == sd_journal_enumerate_unique(Deref(m.journal), L)
        m1 == [m EXCEPT !.journal = Ptr(enum.j),
                        !.delta = @ + m.size,
                        !.n_fields = IF m.n_fields_set THEN @ - 1 ELSE @]
        rec == output_field(enum.i, m.mode)
        m2 == [m1 EXCEPT !.tmp = Overwrite(m.tmp, rec)]
    IN
    IF enum.r = 0
    THEN Returned(MHD_CONTENT_READER_END_OF_STREAM, m, pos, <<>>, emitted, "exhausted")
    ELSE IF m.tmp = NULL /\ fault = "tmpfile"
    THEN Returned(MHD_CONTENT_READER_END_WITH_ERROR, m1, pos - m.size, <<>>,
                  emitted, "error")
    ELSE IF fault = "serialize"
    THEN Returned(MHD_CONTENT_READER_END_WITH_ERROR,
                  [m1 EXCEPT !.tmp = Overwrite(m.tmp, <<>>)], pos - m.size, <<>>,
                  emitted, "error")
    ELSE IF fault = "ftello"
    THEN Returned(MHD_CONTENT_READER_END_WITH_ERROR, m2, pos - m.size, <<>>,
                  emitted, "error")
    ELSE request_reader_fields(
             [m2 EXCEPT !.size = Len(rec)], pos - m.size, max, L, fault,
             Append(emitted, [id |-> enum.i, bytes |-> rec]))

----------------------------------------------------------------------------
(* The requests clients send *)

Request(method, url, accept, range, args) ==
    [method |-> method, url |-> url, accept |-> accept, range |-> range,
     args |-> args]

Arg(key, value) == [key |-> key, value |-> value]

\* A Range header "entries=" followed by rest
EntriesRange(rest) == Ptr(EntriesPrefix \o rest)

Accepts ==
    {NULL, Ptr("application/json"), Ptr("text/event-stream"),
     Ptr("application/vnd.fdo.journal"), Ptr("text/html")}

RangeHeaders ==
    {NULL,
     Ptr(<<"b", "y", "t", "e", "s", "=", "0">>),
     EntriesRange(<<>>),
     EntriesRange(<<"a">>),
     EntriesRange(<<" ", "b", " ">>),
     EntriesRange(<<"c">>),
     EntriesRange(<<"?">>),
     EntriesRange(<<"b", ":", "1">>),
     EntriesRange(<<"a", ":", "1", ":", "1">>),
     EntriesRange(<<"a", ":", "0", ":", "2">>),
     EntriesRange(<<"b", ":", "-", "1", ":", "2">>),
     EntriesRange(<<":", "-", "1", ":">>),
     EntriesRange(<<":", "1", ":">>),
     EntriesRange(<<":", "1">>),
     EntriesRange(<<" ", ":", "0", ":", "1">>),
     EntriesRange(<<"a", ":", "0">>),
     EntriesRange(<<"a", ":", "x", ":", "1">>),
     EntriesRange(<<"a", ":", "1", ":", "x">>)}

ArgLists ==
    {<<>>,
     <<Arg("follow", "")>>,
     <<Arg("follow", ""), Arg("FOO", "bar")>>,
     <<Arg("follow", ""), Arg("boot", "")>>,
     <<Arg("FOO", "bar")>>,
     <<Arg("discrete", "")>>,
     <<Arg("discrete", "yes"), Arg("follow", "1")>>,
     <<Arg("discrete", ""), Arg("FOO", "bar")>>,
     <<Arg("boot", "")>>,
     <<Arg("boot", "true"), Arg("discrete", "")>>,
     <<Arg("follow", "maybe")>>,
     <<Arg("discrete", "no"), Arg("boot", "no")>>,
     <<Arg("", "x")>>,
     <<Arg("discrete", ""), Arg("", "x")>>}

Requests ==
    {Request("GET", <<"entries">>, a, NULL, <<>>) : a \in Accepts}
    \cup {Request("GET", <<"entries">>, NULL, r, g) : r \in RangeHeaders, g \in ArgLists}
    \cup {Request("GET", <<"fields", "FOO">>, a, NULL, <<>>) : a \in Accepts}
    \cup {Request("GET", u, NULL, NULL, <<>>) :
            u \in {<<"">>, <<"browse">>, <<"machine">>, <<"nope">>}}
    \cup {Request("POST", <<"entries">>, NULL, NULL, <<>>)}

\* The journals a run may start from
Journals == UNION {[1..n -> EntryKinds] : n \in 0..MaxLog}

----------------------------------------------------------------------------
(* The state machine *)

NoCall == [pos |-> 0, max |-> 0]

\* What has been observed of a connection while it lives:
\*   out     the bytes the reader calls returned, concatenated
\*   recs    the records the readers serialized, in order
\*   pos, k  the offset of the last reader call and the bytes it returned
\*   jumps   the reader calls whose offset was not pos + k (a connection
\*           that starts with MaxJumps makes none)
\*   cause   why the reader ended the stream
\*   seen    the length of the journal when a reader last returned
\*   seeks   the journal seeks the handler made
\*   oom     whether an allocation failed in the handler
\*   count   n_entries when the reader was installed
\*   skip    n_skip when the reader was installed
\*   start   the length of the journal when the handler answered
\*   freed   what the completion callback released
\*   leaked  what the Request State held that the callback did not release
NoHistory ==
    [out |-> <<>>, recs |-> <<>>, pos |-> 0, k |-> 0, jumps |-> 0,
     cause |-> "none", seen |-> 0, seeks |-> 0, oom |-> FALSE, count |-> 0,
     skip |-> 0, start |-> 0, freed |-> {}, leaked |-> {}]

Init ==
    /\ journal \in Journals
    /\ req \in [Conns -> Requests]
    /\ \A c \in Conns : c > 1 => req[c] = Request("GET", <<"">>, NULL, NULL, <<>>)
    /\ pc = [c \in Conns |-> IF c = 1 THEN "new" ELSE "absent"]
    /\ meta = [c \in Conns |-> NULL]
    /\ resp = [c \in Conns |-> NoResponse]
    /\ call = [c \in Conns |-> NoCall]
    /\ hist = [c \in Conns |-> NoHistory]

\* A writer appends an entry to the journal
JournalAppend ==
    /\ Len(journal) < MaxLog
    /\ \E e \in EntryKinds : journal' = Append(journal, e)
    /\ UNCHANGED <<req, pc, meta, resp, call, hist>>

\* request_meta() that hands every connection the Request State allocated
\* first
request_meta_Shared(connection_cls, fault) ==
    IF connection_cls # NULL THEN connection_cls
    ELSE IF \E d \in Conns : meta[d] # NULL
    THEN meta[CHOOSE d \in Conns : meta[d] # NULL]
    ELSE IF fault = "oom_meta" THEN NULL
    ELSE Ptr(NewRequestMeta)

\* request_meta(): the Request State of the connection, allocated on first use
request_meta(connection_cls, fault) ==
    IF connection_cls # NULL THEN connection_cls
    ELSE IF fault = "oom_meta" THEN NULL
    ELSE Ptr(NewRequestMeta)

\* request_handler() that goes on to the dispatch in the invocation that
\* allocates the Request State
RequestHandler_AnswersAtOnce(c) ==
    /\ pc[c] \in {"new", "headers"}
    /\ \E fault \in HandlerFaults :
        IF req[c].method # "GET"
        THEN /\ pc' = [pc EXCEPT ![c] = "closed"]
             /\ UNCHANGED <<meta, resp, hist>>
        ELSE IF request_meta(meta[c], fault) = NULL
        THEN /\ resp' = [resp EXCEPT ![c] = respond_oom_internal]
             /\ pc' = [pc EXCEPT ![c] = "queued"]
             /\ hist' = [hist EXCEPT ![c].oom = TRUE]
             /\ UNCHANGED meta
        ELSE LET h == request_handler_dispatch(
                          Deref(request_meta(meta[c], fault)), req[c], fault) IN
             /\ meta' = [meta EXCEPT ![c] = Ptr(h.m)]
             /\ resp' = [resp EXCEPT ![c] = h.resp]
             /\ pc' = [pc EXCEPT ![c] = IF h.reader = "none" THEN "queued" ELSE h.reader]
             /\ hist' = [hist EXCEPT ![c].seeks = h.seeks, ![c].oom = h.oom,
                                     ![c].count = h.m.n_entries,
                                     ![c].skip = h.m.n_skip,
                                     ![c].start = Len(journal)]
    /\ UNCHANGED <<journal, req, call>>

\* request_handler(): one call by the HTTP runtime
RequestHandler(c) ==
    /\ pc[c] \in {"new", "headers"}
    /\ \E fault \in HandlerFaults :
        IF req[c].method # "GET"
        THEN /\ pc' = [pc EXCEPT ![c] = "closed"]
             /\ UNCHANGED <<meta, resp, hist>>
        ELSE IF meta[c] = NULL
        THEN IF request_meta(meta[c], fault) = NULL
             THEN /\ resp' = [resp EXCEPT ![c] = respond_oom_internal]
                  /\ pc' = [pc EXCEPT ![c] = "queued"]
                  /\ hist' = [hist EXCEPT ![c].oom = TRUE]
                  /\ UNCHANGED meta
             ELSE /\ meta' = [meta EXCEPT ![c] = request_meta(meta[c], fault)]
                  /\ pc' = [pc EXCEPT ![c] = "headers"]
                  /\ UNCHANGED <<resp, hist>>
        ELSE LET h == request_handler_dispatch(Deref(meta[c]), req[c], fault) IN
             /\ meta' = [meta EXCEPT ![c] = Ptr(h.m)]
             /\ resp' = [resp EXCEPT ![c] = h.resp]
             /\ pc' = [pc EXCEPT ![c] = IF h.reader = "none" THEN "queued" ELSE h.reader]
             /\ hist' = [hist EXCEPT ![c].seeks = h.seeks, ![c].oom = h.oom,
                                     ![c].count = h.m.n_entries,
                                     ![c].skip = h.m.n_skip,
                                     ![c].start = Len(journal)]
    /\ UNCHANGED <<journal, req, call>>

\* The offsets the runtime may pass to the next reader call: the bytes
\* returned so far, or (at most MaxJumps times) any offset not below the
\* last one
Contiguous(c) == hist[c].pos + hist[c].k

Offsets(c) ==
    {Contiguous(c)}
    \cup (IF hist[c].jumps < MaxJumps
          THEN hist[c].pos..(Contiguous(c) + MaxStride)
          ELSE {})

\* The effect of a reader call's return on the connection
ReaderReturn(c, pos, max, res) ==
    /\ meta' = [meta EXCEPT ![c] = Ptr(res.m)]
    /\ pc' = [pc EXCEPT ![c] =
                 CASE res.ret = "DATA" -> pc[c]
                   [] res.ret = "WAIT" -> "wait"
                   [] res.ret = MHD_CONTENT_READER_END_OF_STREAM -> "eos"
                   [] res.ret = MHD_CONTENT_READER_END_WITH_ERROR -> "err"]
    /\ call' = [call EXCEPT ![c] =
                   IF res.ret = "WAIT" THEN [pos |-> res.pos, max |-> max] ELSE NoCall]
    /\ hist' = [hist EXCEPT ![c].out = @ \o res.data,
                            ![c].recs = @ \o res.emitted,
                            ![c].pos = pos,
                            ![c].k = Len(res.data),
                            ![c].jumps = IF pos # Contiguous(c) THEN @ + 1 ELSE @,
                            ![c].cause = res.cause,
                            ![c].seen = Len(journal)]

\* request_reader_entries(): one call by the HTTP runtime with offset pos
\* and a buffer of max bytes
ReaderEntries(c) ==
    /\ pc[c] = "entries"
    /\ \E pos \in Offsets(c), max \in 1..MaxBuf, fault \in EntriesFaults :
        IF pos < Deref(meta[c]).delta
        THEN /\ pc' = [pc EXCEPT ![c] = "abort"]
             /\ UNCHANGED <<meta, call, hist>>
        ELSE ReaderReturn(c, pos, max,
                 request_reader_entries(Deref(meta[c]), pos - Deref(meta[c]).delta,
                                        max, journal, fault, <<>>))
    /\ UNCHANGED <<journal, req, resp>>

\* sd_journal_wait() returns in a blocked request_reader_entries() call,
\* which goes on with its loop
JournalWait(c) ==
    /\ pc[c] = "wait"
    /\ \E fault \in EntriesFaults :
        LET res == request_reader_entries(Deref(meta[c]), call[c].pos, call[c].max,
                                          journal, fault, <<>>) IN
        /\ meta' = [meta EXCEPT ![c] = Ptr(res.m)]
        /\ pc' = [pc EXCEPT ![c] =
                     CASE res.ret = "DATA" -> "entries"
                       [] res.ret = "WAIT" -> "wait"
                       [] res.ret = MHD_CONTENT_READER_END_OF_STREAM -> "eos"
                       [] res.ret = MHD_CONTENT_READER_END_WITH_ERROR -> "err"]
        /\ call' = [call EXCEPT ![c] =
                       IF res.ret = "WAIT" THEN [pos |-> res.pos, max |-> call[c].max]
                       ELSE NoCall]
        /\ hist' = [hist EXCEPT ![c].out = @ \o res.data,
                                ![c].recs = @ \o res.emitted,
                                ![c].k = Len(res.data),
                                ![c].cause = res.cause,
                                ![c].seen = Len(journal)]
    /\ UNCHANGED <<journal, req, resp>>

\* request_reader_fields(): one call by the HTTP runtime
ReaderFields(c) ==
    /\ pc[c] = "fields"
    /\ \E pos \in Offsets(c), max \in 1..MaxBuf, fault \in FieldsFaults :
        IF pos < Deref(meta[c]).delta
        THEN /\ pc' = [pc EXCEPT ![c] = "abort"]
             /\ UNCHANGED <<meta, call, hist>>
        ELSE ReaderReturn(c, pos, max,
                 request_reader_fields(Deref(meta[c]), pos - Deref(meta[c]).delta,
                                       max, journal, fault, <<>>))
    /\ UNCHANGED <<journal, req, resp>>

\* What a connection slot holds: the Request State and the resources it
\* owns (the open journal handle, the open temporary file, the cursor string)
Held(connection_cls) ==
    IF connection_cls = NULL THEN {}
    ELSE {"meta"}
         \cup (IF Deref(connection_cls).journal # NULL THEN {"journal"} ELSE {})
         \cup (IF Deref(connection_cls).tmp # NULL THEN {"tmp"} ELSE {})
         \cup (IF Deref(connection_cls).cursor # NULL THEN {"cursor"} ELSE {})

\* request_meta_free() without sd_journal_close()
request_meta_free_KeepsJournal(connection_cls) ==
    IF connection_cls = NULL THEN {}
    ELSE (IF Deref(connection_cls).tmp # NULL THEN {"tmp"} ELSE {})
         \cup (IF Deref(connection_cls).cursor # NULL THEN {"cursor"} ELSE {})
         \cup {"meta"}

\* request_meta_free(): what the completion callback releases.  free() of a
\* NULL cursor releases nothing.
request_meta_free(connection_cls) ==
    IF connection_cls = NULL THEN {}
    ELSE (IF Deref(connection_cls).journal # NULL THEN {"journal"} ELSE {})
         \cup (IF Deref(connection_cls).tmp # NULL THEN {"tmp"} ELSE {})
         \cup (IF Deref(connection_cls).cursor # NULL THEN {"cursor"} ELSE {})
         \cup {"meta"}

\* The completion callback, run by the runtime when the connection ends
\* (response sent, stream ended, connection refused, client gone)
RequestMetaFree(c) ==
    /\ pc[c] \in {"headers", "entries", "fields", "queued", "eos", "err", "closed"}
    /\ meta' = [meta EXCEPT ![c] = NULL]
    /\ pc' = [pc EXCEPT ![c] = "freed"]
    /\ hist' = [hist EXCEPT ![c] =
                    [NoHistory EXCEPT
                        !.freed = request_meta_free(meta[c]),
                        !.leaked = Held(meta[c]) \ request_meta_free(meta[c])]]
    /\ UNCHANGED <<journal, req, resp, call>>

Next ==
    \/ JournalAppend
    \/ \E c \in Conns : RequestHandler(c)
    \/ \E c \in Conns : ReaderEntries(c)
    \/ \E c \in Conns : JournalWait(c)
    \/ \E c \in Conns : ReaderFields(c)
    \/ \E c \in Conns : RequestMetaFree(c)

Spec == Init /\ [][Next]_vars

----------------------------------------------------------------------------
(* Vocabulary of the properties *)

\* The Request State of a connection that has one
M(c) == Deref(meta[c])

\* The connection's journal handle
J(c) == Deref(M(c).journal)

\* The connection asked for /entries and its reader is installed
EntriesStream(c) ==
    /\ req[c].url = <<"entries">>
    /\ pc[c] \in {"entries", "wait", "eos", "err"}

\* The virtual response stream: the records serialized, concatenated
RECURSIVE Concat(_)
Concat(recs) == IF recs = <<>> THEN <<>> ELSE Head(recs).bytes \o Concat(Tail(recs))

Stream(c) == Concat(hist[c].recs)

\* The entries whose records were serialized, in order
Ids(c) == [k \in 1..Len(hist[c].recs) |-> hist[c].recs[k].id]

Emitted(c, i) == \E k \in 1..Len(hist[c].recs) : hist[c].recs[k].id = i

\* The journal as it was when a reader last returned on the connection
SeenLog(c) == SubSeq(journal, 1, hist[c].seen)

IsPrefix(s, t) == Len(s) <= Len(t) /\ s = SubSeq(t, 1, Len(s))

----------------------------------------------------------------------------
(* C1 *)

\* The bytes returned so far are the start of the virtual stream, reach at
\* least the start of the record in the spill buffer, and are the whole
\* stream once the reader has returned end-of-stream
Delivered(c) ==
    /\ IsPrefix(hist[c].out, Stream(c))
    /\ Len(hist[c].out) >= M(c).delta
    /\ pc[c] = "eos" => hist[c].out = Stream(c)

\* C1 as stated: for any connection, the concatenation of the bytes returned
\* by successive reader calls with monotonically non-decreasing offsets
\* equals the concatenation of the serialized records in emission order.
\* (The offsets of the model are non-decreasing, and no more.)
C1_AnyOffsets ==
    \A c \in Conns : EntriesStream(c) /\ pc[c] # "err" => Delivered(c)

\* C1, amended: when every reader call's offset is the number of bytes the
\* earlier calls returned, the concatenation of the bytes returned equals the
\* concatenation of the serialized records in emission order: no byte is
\* reordered, duplicated or dropped.
C1_ContiguousOffsets ==
    \A c \in Conns :
        EntriesStream(c) /\ pc[c] # "err" /\ hist[c].jumps = 0 => Delivered(c)

\* Two records of different entries were delivered whole, over several calls
C1_Witness ==
    \E c \in Conns :
        /\ pc[c] = "eos" /\ req[c].url = <<"entries">> /\ hist[c].jumps = 0
        /\ Len(hist[c].recs) = 2
        /\ Len(hist[c].out) >= 3
        /\ hist[c].out = Stream(c)

----------------------------------------------------------------------------
(* C2 *)

\* The entries the cursor can reach after seeding and the first advance: the
\* entry the first advance reached and the visible ones after it, or, when
\* no advance has reached an entry, what lies in its direction
Reached(c) ==
    IF hist[c].recs # <<>> THEN {hist[c].recs[1].id}
    ELSE IF hist[c].cause = "discrete" THEN {J(c).loc.id}
    ELSE {}

Available(c) ==
    IF Reached(c) # {}
    THEN {i \in Visible(J(c), SeenLog(c)) : \E f \in Reached(c) : i >= f}
    ELSE IF M(c).n_skip < 0 THEN Behind(J(c), SeenLog(c))
    ELSE Ahead(J(c), SeenLog(c))

\* An /entries stream with a count, follow off, that reached end-of-stream
CountedStreamEnded(c) ==
    /\ EntriesStream(c) /\ pc[c] = "eos"
    /\ M(c).n_entries_set /\ ~M(c).follow

\* C2 as stated: for an /entries stream with n_entries_set pulled to
\* end-of-stream (follow off, no error), the number of records emitted is
\* exactly min(n_entries, entries_available).
C2_AnyCounted ==
    \A c \in Conns :
        CountedStreamEnded(c) =>
            Len(hist[c].recs) = Min(hist[c].count, Cardinality(Available(c)))

\* C2, amended: the same for a stream that is not discrete (a discrete
\* stream whose first advance reaches an entry other than the cursor's emits
\* no record although entries are available).
C2_CountedNotDiscrete ==
    \A c \in Conns :
        CountedStreamEnded(c) /\ ~M(c).discrete =>
            Len(hist[c].recs) = Min(hist[c].count, Cardinality(Available(c)))

\* A stream stopped by its count with an entry still available
C2_Witness ==
    \E c \in Conns :
        /\ CountedStreamEnded(c) /\ ~M(c).discrete
        /\ Len(hist[c].recs) = 1 /\ hist[c].count = 1
        /\ Cardinality(Available(c)) = 2

----------------------------------------------------------------------------
(* C3 *)

\* C3 as stated: with follow = true the reader never returns end-of-stream
\* because the advance found no entry, and the stream can only end when
\* n_entries reaches zero (or by disconnect or error).
C3_EndsOnlyByCount ==
    \A c \in Conns :
        EntriesStream(c) /\ pc[c] = "eos" /\ M(c).follow =>
            /\ hist[c].cause # "exhausted"
            /\ M(c).n_entries_set /\ M(c).n_entries = 0

\* C3, amended: with follow = true the reader never returns end-of-stream
\* because the advance found no entry; it returns end-of-stream only when
\* n_entries has reached zero or, in discrete mode, when the entry reached
\* is not the cursor's.
C3_FollowNeverEndsOnExhaustion ==
    \A c \in Conns :
        EntriesStream(c) /\ pc[c] = "eos" /\ M(c).follow =>
            /\ hist[c].cause # "exhausted"
            /\ \/ M(c).n_entries_set /\ M(c).n_entries = 0
               \/ /\ M(c).discrete
                  /\ J(c).loc.type = "at"
                  /\ sd_journal_test_cursor(J(c), Deref(M(c).cursor)) = 0

\* A follow stream blocked in the journal wait after it emitted a record
C3_Witness ==
    \E c \in Conns :
        /\ pc[c] = "wait" /\ M(c).follow
        /\ Len(hist[c].recs) >= 1
        /\ Ahead(J(c), journal) = {}

----------------------------------------------------------------------------
(* C4 *)

\* The argument sets follow
IsFollowArg(a) == a.key = "follow" /\ (isempty(a.value) \/ parse_boolean(a.value) = 1)

\* The Range headers of the follow requests: none, a skip, a count, a cursor
FollowRanges ==
    {NULL,
     EntriesRange(<<":", "1", ":">>),
     EntriesRange(<<":", "1">>),
     EntriesRange(<<"a">>)}

\* The journal is empty, and the request is any request but an /entries
\* request without follow
LiveInit ==
    /\ Init
    /\ journal = <<>>
    /\ \/ req[1].url # <<"entries">>
       \/ /\ req[1].range \in FollowRanges
          /\ \E k \in 1..Len(req[1].args) : IsFollowArg(req[1].args[k])

\* The connection has terminated: its response was queued without a reader,
\* its reader ended the stream, or the handler refused the connection
Terminated == {"queued", "eos", "err", "closed"}

\* The runtime keeps pulling, the journal wait is woken, and the runtime
\* calls the completion callback of a connection that has terminated: weak
\* fairness of ReaderEntries(c), of JournalWait(c) and, once the connection
\* has terminated, of RequestMetaFree(c).  WF_vars(A) is written out as
\* []<>~ENABLED <<A>>_vars \/ []<><<A>>_vars, with the guard of A for
\* ENABLED <<A>>_vars: a reader call always changes the state (it returns
\* at least one byte, blocks or ends the stream), and so can a wake-up.
Fair(c) ==
    /\ []<>(pc[c] # "entries") \/ []<><<ReaderEntries(c)>>_vars
    /\ []<>(pc[c] # "wait") \/ []<><<JournalWait(c)>>_vars
    /\ []<>(pc[c] \notin Terminated) \/ []<><<RequestMetaFree(c)>>_vars

LiveSpec == LiveInit /\ [][Next]_vars /\ \A c \in Conns : Fair(c)

\* A follow stream of a request made when the journal was empty
FollowFromEmpty(c) ==
    EntriesStream(c) /\ M(c).follow /\ hist[c].start = 0

\* The Range header set no cursor, no skip and no count, and the request is
\* not discrete
Unrestricted(c) ==
    /\ M(c).cursor = NULL /\ hist[c].skip = 0
    /\ ~M(c).n_entries_set /\ ~M(c).discrete

\* The entry satisfies the matches the request asks for: KEY=VALUE for every
\* such argument, and the current boot when boot is set
IsBootArg(a) == a.key = "boot" /\ (isempty(a.value) \/ parse_boolean(a.value) = 1)

Wanted(c, e) ==
    \A k \in 1..Len(req[c].args) :
        LET a == req[c].args[k] IN
        IF a.key \in {"follow", "discrete"} THEN TRUE
        ELSE IF a.key = "boot" THEN IsBootArg(a) => e.boot = CurrentBoot
        ELSE FieldValue(e, a.key) = a.value

\* The matches installed on the journal handle include one for every
\* KEY=VALUE argument of the request
MatchesInstalled(c) ==
    \A k \in 1..Len(req[c].args) :
        LET a == req[c].args[k] IN
        a.key \notin {"follow", "discrete", "boot"} =>
            [field |-> a.key, value |-> a.value] \in J(c).matches

\* Only entries that pass the installed matches are emitted, in append order
EmitsMatchingInOrder(c) ==
    /\ \A k \in 1..Len(Ids(c)) : Matches(J(c), journal[Ids(c)[k]])
    /\ \A k \in 2..Len(Ids(c)) : Ids(c)[k - 1] < Ids(c)[k]

\* No entry that passes the installed matches is passed over
SkipsNoMatching(c) ==
    \A i, k \in 1..Len(journal) :
        i < k /\ Emitted(c, k) /\ Matches(J(c), journal[i]) => Emitted(c, i)

\* The connection is over without end-of-stream: an error, the completion
\* callback (the client is gone), or the failed assertion on pos
Over(c) == pc[c] \in {"err", "freed", "abort"}

----------------------------------------------------------------------------
(* C5 *)

\* A discrete /entries stream that has not failed
DiscreteStream(c) == EntriesStream(c) /\ pc[c] # "err" /\ M(c).discrete

\* The entry the cursor of the request names
CursorEntry(c) == CursorId(Deref(M(c).cursor))

\* C5 as stated: a discrete request whose cursor matches an existing entry
\* (one that passes the request's matches) emits exactly one record (that entry) and ends the stream, one whose
\* cursor does not match the entry reached emits no record and ends the
\* stream with end-of-stream, whatever skip and count the Range header has.
C5_AnySkip ==
    \A c \in Conns :
        DiscreteStream(c) /\ pc[c] = "eos" =>
            /\ CursorEntry(c) \in Visible(J(c), SeenLog(c)) =>
                   Ids(c) = <<CursorEntry(c)>>
            /\ hist[c].cause = "discrete" => Ids(c) = <<>>

\* C5, amended: a discrete request emits exactly one record, the cursor's
\* entry, and ends the stream when the entry its first advance reaches is
\* the cursor's (as it is when the skip is 0 and the cursor's entry passes
\* the matches), and emits no record and ends the stream with end-of-stream
\* when that entry is another one; whatever count the Range header has,
\* n_entries is 1.
C5_DiscreteOneOrNone ==
    \A c \in Conns :
        DiscreteStream(c) =>
            /\ hist[c].count = 1
            /\ Len(Ids(c)) <= 1
            /\ Ids(c) # <<>> =>
                   /\ Ids(c) = <<CursorEntry(c)>>
                   /\ M(c).n_entries_set /\ M(c).n_entries = 0
            /\ pc[c] = "eos" =>
                   /\ hist[c].cause \in {"count", "discrete", "exhausted"}
                   /\ hist[c].cause = "count" <=> Len(Ids(c)) = 1
                   /\ hist[c].cause = "discrete" =>
                          J(c).loc.type = "at" /\ J(c).loc.id # CursorEntry(c)
                   /\ hist[c].skip = 0 /\ CursorEntry(c) \in Visible(J(c), SeenLog(c))
                          => Len(Ids(c)) = 1

\* A discrete request with a count of 2 in its Range header emitted the
\* cursor's entry, and only it, of a journal of two
C5_Witness ==
    \E c \in Conns :
        /\ DiscreteStream(c) /\ pc[c] = "eos"
        /\ hist[c].cause = "count"
        /\ req[c].range = EntriesRange(<<"a", ":", "0", ":", "2">>)
        /\ hist[c].seen = 2
        /\ Ids(c) = <<1>>

----------------------------------------------------------------------------
(* C6 *)

\* The handler has answered an /entries request
EntriesAnswered(c) ==
    /\ req[c].url = <<"entries">> /\ req[c].method = "GET"
    /\ meta[c] # NULL /\ resp[c] # NoResponse

\* C6: an /entries request with discrete set and no cursor (no Range header,
\* or a cursor that is empty after trimming) is answered with 400 (when no
\* allocation fails; with the canned 503 at worst), without a seek in the
\* journal and without the reader installed.
C6_DiscreteNeedsCursor ==
    \A c \in Conns :
        EntriesAnswered(c) /\ M(c).discrete /\ M(c).cursor = NULL =>
            /\ ~hist[c].oom => resp[c].status = MHD_HTTP_BAD_REQUEST
            /\ resp[c].status \in {MHD_HTTP_BAD_REQUEST, MHD_HTTP_SERVICE_UNAVAILABLE}
            /\ hist[c].seeks = 0
            /\ pc[c] = "queued"
            /\ hist[c].recs = <<>> /\ hist[c].out = <<>>

\* A discrete request whose Range header has a blank cursor got the 400
C6_Witness ==
    \E c \in Conns :
        /\ EntriesAnswered(c) /\ M(c).discrete /\ M(c).cursor = NULL
        /\ req[c].range = EntriesRange(<<" ", ":", "0", ":", "1">>)
        /\ M(c).n_entries_set
        /\ resp[c].status = MHD_HTTP_BAD_REQUEST
        /\ resp[c].body = "Discrete seeks require a cursor specification.\n"

----------------------------------------------------------------------------
(* C7 *)

\* An /entries stream of a request with Range: entries=:-1:
BackwardStream(c) ==
    /\ EntriesStream(c)
    /\ req[c].range = EntriesRange(<<":", "-", "1", ":">>)

\* Nothing was appended to the journal since the handler answered
NoAppendSince(c) == Len(journal) = hist[c].start

\* C7 as stated: with Range: entries=:-1: the first record emitted is the
\* newest journal entry and each following record is older than the one
\* before it.
C7_NewestFirstBackward ==
    \A c \in Conns :
        BackwardStream(c) /\ Ids(c) # <<>> =>
            /\ NoAppendSince(c) => Ids(c)[1] = SetMax(Visible(J(c), journal))
            /\ \A k \in 2..Len(Ids(c)) : Ids(c)[k] < Ids(c)[k - 1]

\* C7, amended: with Range: entries=:-1: the stream starts two entries
\* back from the tail: the first record emitted is the entry before the
\* newest one (the newest one when the journal has a single entry), and
\* each following record is the next newer entry.
C7_SecondNewestThenForward ==
    \A c \in Conns :
        BackwardStream(c) /\ Ids(c) # <<>> =>
            /\ NoAppendSince(c) =>
                   LET V == Visible(J(c), journal) IN
                   Ids(c)[1] = IF Cardinality(V) = 1 THEN SetMax(V)
                               ELSE SetMax(V \ {SetMax(V)})
            /\ \A k \in 2..Len(Ids(c)) :
                   Ids(c)[k] = SetMin({i \in Visible(J(c), journal) : i > Ids(c)[k - 1]})

\* The stream of a journal of two entries emitted the older, then the newer
C7_Witness ==
    \E c \in Conns :
        /\ BackwardStream(c) /\ pc[c] = "eos" /\ NoAppendSince(c)
        /\ req[c].args = <<>>
        /\ Len(journal) = 2
        /\ Ids(c) = <<1, 2>>

----------------------------------------------------------------------------
(* C8 *)

\* An /entries stream of a request with no Range header and no arguments
PlainStream(c) ==
    EntriesStream(c) /\ req[c].range = NULL /\ req[c].args = <<>>

\* C8: /entries with no Range header and no query arguments yields every
\* journal entry exactly once, in forward order from the oldest, and then
\* end-of-stream; on an empty journal the response is 200 with an empty body.
C8_PlainYieldsAll ==
    \A c \in Conns :
        PlainStream(c) =>
            /\ resp[c].status = MHD_HTTP_OK
            /\ Ids(c) = [k \in 1..Len(Ids(c)) |-> k]
            /\ pc[c] = "eos" =>
                   /\ hist[c].cause = "exhausted"
                   /\ Len(Ids(c)) = hist[c].seen
                   /\ hist[c].jumps = 0 => hist[c].out = Stream(c)
                   /\ hist[c].seen = 0 => hist[c].out = <<>>

\* Both entries of a journal were delivered, and then end-of-stream
C8_Witness ==
    \E c \in Conns :
        /\ PlainStream(c) /\ pc[c] = "eos" /\ hist[c].jumps = 0
        /\ Len(journal) = 2
        /\ Ids(c) = <<1, 2>>
        /\ Len(hist[c].out) >= 2

----------------------------------------------------------------------------
(* C9 *)

\* The argument was parsed without failure into the Request State
ArgumentParsed(c, a) ==
    /\ ~isempty(a.key)
    /\ IF a.key \in {"follow", "discrete", "boot"}
       THEN /\ ~isempty(a.value) => parse_boolean(a.value) >= 0
            /\ IsBootArg(a) =>
                   [field |-> "_BOOT_ID", value |-> CurrentBoot] \in J(c).matches
       ELSE [field |-> a.key, value |-> a.value] \in J(c).matches

\* C9: every failure while the Entries handler parses the Accept header,
\* the Range header or the query arguments ends the request with a 400: a
\* request answered with 200 and a stream has had its count and every one of
\* its arguments parsed without failure.
C9_ParseFailureIs400 ==
    \A c \in Conns :
        EntriesAnswered(c) /\ resp[c].status = MHD_HTTP_OK =>
            /\ M(c).n_entries_set => hist[c].count >= 1
            /\ \A k \in 1..Len(req[c].args) : ArgumentParsed(c, req[c].args[k])

----------------------------------------------------------------------------
(* C10 *)

\* C10: every out-of-memory condition met while a request is handled, before
\* its response is committed, is answered with status 503 and the body
\* "Out of memory.", never with another status.
C10_OomIs503 ==
    \A c \in Conns :
        hist[c].oom /\ resp[c] # NoResponse =>
            /\ resp[c].status = MHD_HTTP_SERVICE_UNAVAILABLE
            /\ resp[c].body = "Out of memory.\n"

----------------------------------------------------------------------------
(* C11 *)

\* One step of a connection, as far as its Request State is concerned: the
\* slot is emptied only by the completion callback; while the slot is
\* occupied the journal handle, the temporary file and the cursor it holds
\* stay; and the callback on an empty slot changes nothing but the life of
\* the connection
KeepsRequestState(c) ==
    /\ meta[c] # NULL /\ meta'[c] = NULL => pc[c] # "freed" /\ pc'[c] = "freed"
    /\ meta[c] # NULL /\ meta'[c] # NULL =>
           /\ Held(meta[c]) \subseteq Held(meta'[c])
           /\ M(c).cursor # NULL => Deref(meta'[c]).cursor = M(c).cursor
    /\ meta[c] = NULL /\ pc[c] # "freed" /\ pc'[c] = "freed" =>
           /\ meta' = meta /\ resp' = resp /\ journal' = journal
           /\ hist'[c].freed = {}

----------------------------------------------------------------------------
(* C12 *)

\* What holds of every router step on a connection whatever the allocator
\* does: a request that is not a GET never gets a Request State or a
\* response; a Request State is allocated only by the first invocation, and
\* no invocation is the first twice, so that a connection has at most one
\* Request State in its life
RouterStep(c) ==
    /\ req[c].method # "GET" => meta'[c] = NULL /\ resp'[c] = NoResponse
    /\ meta[c] = NULL /\ meta'[c] # NULL =>
           /\ pc[c] = "new" /\ pc'[c] = "headers"
           /\ meta'[c] = Ptr(NewRequestMeta)
           /\ resp'[c] = NoResponse
    /\ pc[c] # "new" => pc'[c] # "new"
    /\ pc[c] = "headers" /\ pc'[c] \notin {"headers", "freed"} => resp'[c] # NoResponse

----------------------------------------------------------------------------
(* C13 *)

\* The connection asked for /fields/X and its reader is installed
FieldsStream(c) ==
    /\ Len(req[c].url) = 2 /\ req[c].url[1] = "fields"
    /\ pc[c] \in {"fields", "eos", "err"}

\* What the unique-value enumeration for X returns on log L: the entries
\* that carry the first occurrence of each value
Enumerated(c, L) == UniqueIdx(L, req[c].url[2])

\* C13: the /fields/X stream emits each value the journal's unique-value
\* enumeration for X returns exactly once, in the order the enumeration
\* returns them, serialized by the per-field formatter, and ends with
\* end-of-stream exactly when the enumeration is exhausted: no count caps
\* it, n_fields_set never being set.
C13_FieldsYieldsUniques ==
    \A c \in Conns :
        FieldsStream(c) =>
            /\ ~M(c).n_fields_set
            /\ \A k \in 2..Len(Ids(c)) : Ids(c)[k - 1] < Ids(c)[k]
            /\ \A i \in Enumerated(c, journal) :
                   Emitted(c, i) <=> Ids(c) # <<>> /\ i <= Ids(c)[Len(Ids(c))]
            /\ \A k \in 1..Len(Ids(c)) :
                   /\ Ids(c)[k] \in Enumerated(c, journal)
                   /\ hist[c].recs[k].bytes = output_field(Ids(c)[k], M(c).mode)
            /\ pc[c] = "eos" =>
                   /\ hist[c].cause = "exhausted"
                   /\ \A i \in Enumerated(c, SeenLog(c)) : Emitted(c, i)
            /\ pc[c] # "err" /\ hist[c].jumps = 0 =>
                   /\ IsPrefix(hist[c].out, Stream(c))
                   /\ pc[c] = "eos" => hist[c].out = Stream(c)

\* The two values of FOO in a journal of two entries were delivered, then
\* end-of-stream
C13_Witness ==
    \E c \in Conns :
        /\ FieldsStream(c) /\ pc[c] = "eos" /\ hist[c].jumps = 0
        /\ Len(journal) = 2 /\ journal[1].foo # journal[2].foo
        /\ Ids(c) = <<1, 2>>
        /\ hist[c].out = Stream(c)

----------------------------------------------------------------------------
(* C14 *)

\* The requests of two connections served at once: the whole journal, a
\* follow stream, the values of a field
PairRequests ==
    {Request("GET", <<"entries">>, NULL, NULL, <<>>),
     Request("GET", <<"entries">>, NULL, NULL, <<Arg("follow", "")>>),
     Request("GET", <<"fields", "FOO">>, Ptr("application/json"), NULL, <<>>)}

\* Every connection is live, each with one of these requests, on a journal
\* that holds one entry; the runtime calls the readers with the offset that
\* follows the bytes returned
PairInit ==
    /\ journal \in [1..1 -> EntryKinds]
    /\ req \in [Conns -> PairRequests]
    /\ pc = [c \in Conns |-> "new"]
    /\ meta = [c \in Conns |-> NULL]
    /\ resp = [c \in Conns |-> NoResponse]
    /\ call = [c \in Conns |-> NoCall]
    /\ hist = [c \in Conns |-> [NoHistory EXCEPT !.jumps = MaxJumps]]

PairSpec == PairInit /\ [][Next]_vars

\* All there is of a connection: its Request State (mode, cursor, n_skip,
\* n_entries, delta, size, spill, journal position), its response, its
\* blocked reader call, and what was observed of it
OwnState(c) == <<meta[c], pc[c], resp[c], call[c], hist[c]>>

\* A step of one connection leaves every other connection as it was
LeavesOthers(c) ==
    OwnState(c)' # OwnState(c) =>
        \A d \in Conns \ {c} : OwnState(d)' = OwnState(d)

\* The stream of a connection is what its own request yields on the
\* journal: the bytes returned are those of its records, and its records are
\* the entries its own handle reaches, from the oldest on for a request for
\* the whole journal
StreamsAsAlone(c) ==
    /\ EntriesStream(c) =>
           /\ pc[c] # "err" => Delivered(c)
           /\ \A k \in 1..Len(Ids(c)) :
                  hist[c].recs[k].bytes =
                      output_journal(Ids(c)[k], journal[Ids(c)[k]], M(c).mode)
           /\ req[c].range = NULL => Ids(c) = [k \in 1..Len(Ids(c)) |-> k]
           /\ req[c].range = NULL /\ pc[c] = "eos" => Len(Ids(c)) = hist[c].seen
    /\ FieldsStream(c) =>
           /\ \A k \in 1..Len(Ids(c)) :
                  hist[c].recs[k].bytes = output_field(Ids(c)[k], M(c).mode)
           /\ \A i \in Enumerated(c, journal) :
                  Emitted(c, i) <=> Ids(c) # <<>> /\ i <= Ids(c)[Len(Ids(c))]
           /\ pc[c] # "err" => IsPrefix(hist[c].out, Stream(c))
    /\ pc[c] # "abort"

\* C14: connections share no mutable state: a handler, reader or completion
\* step on one connection leaves the Request State of every other connection
\* unchanged, and under any interleaving the byte stream of each connection
\* is the one its own request yields on the journal.
C14_ConnectionsIndependent ==
    /\ [][\A c \in Conns : LeavesOthers(c)]_vars
    /\ [](\A c \in Conns : StreamsAsAlone(c))

\* Two streams of the same journal, one at its end and the other still on
\* the first record
C14_Witness ==
    \E c, d \in Conns :
        /\ c # d
        /\ EntriesStream(c) /\ pc[c] = "eos" /\ Ids(c) = <<1, 2>>
        /\ EntriesStream(d) /\ pc[d] = "entries" /\ Ids(d) = <<1>>
        /\ J(c).loc # J(d).loc
        /\ M(c).delta # M(d).delta

----------------------------------------------------------------------------
(* C15 *)

\* A reader is installed on the connection and may be called
ReaderInstalled(c) == pc[c] \in {"entries", "fields", "wait"}

\* C15: pos >= delta holds at every entry to a reader: for every sequence
\* of reader calls on a connection whose offsets are monotonically
\* non-decreasing, starting from delta = 0 and size = 0, the assertion
\* pos >= m->delta of request_reader_entries and request_reader_fields
\* never fails.  (Every offset the runtime may pass next is at least the
\* last one, which is at least delta.)
C15_PosNotBelowDelta ==
    \A c \in Conns :
        /\ pc[c] # "abort"
        /\ ReaderInstalled(c) =>
               /\ hist[c].pos >= M(c).delta
               /\ \A pos \in Offsets(c) : pos >= M(c).delta
        /\ pc[c] = "wait" => call[c].pos >= 0

\* A reader was called again with the offset of the call before, which is
\* the start of the second record
C15_Witness ==
    \E c \in Conns :
        /\ pc[c] = "entries" /\ hist[c].jumps = 1
        /\ Len(hist[c].recs) = 2
        /\ M(c).delta > 0 /\ hist[c].pos = M(c).delta
        /\ hist[c].k > 0

----------------------------------------------------------------------------
(* C16 *)

\* The last reader call on the connection reached the copy step and
\* returned bytes (the copy step returns at least one byte)
Copied(c) == ReaderInstalled(c) /\ hist[c].k > 0

\* C16: while a record is being emitted, delta <= pos < delta + size:
\* whenever a reader reaches the copy step (the seek and the read of the
\* spill buffer), the absolute offset requested lies inside the record the
\* spill buffer holds, and so do the bytes copied.
C16_PosInsideRecord ==
    \A c \in Conns :
        Copied(c) =>
            /\ M(c).delta <= hist[c].pos
            /\ hist[c].pos < M(c).delta + M(c).size
            /\ hist[c].pos + hist[c].k <= M(c).delta + M(c).size
            /\ M(c).tmp # NULL
            /\ SubSeq(hist[c].out, Len(hist[c].out) - hist[c].k + 1, Len(hist[c].out))
                   = SubSeq(Deref(M(c).tmp), hist[c].pos - M(c).delta + 1,
                            hist[c].pos - M(c).delta + hist[c].k)

\* A call copied from the middle of the second record, after an offset that
\* jumped ahead
C16_Witness ==
    \E c \in Conns :
        /\ Copied(c) /\ hist[c].jumps = 1
        /\ Len(hist[c].recs) = 2
        /\ hist[c].pos > M(c).delta /\ M(c).delta > 0

----------------------------------------------------------------------------
(* C17 *)

\* The connection is at the entry of a reader, inside one, or at a
\* successful return of one
ReaderSound(c) == pc[c] \in {"entries", "fields", "wait", "eos"}

\* The last record serialized on the connection
LastRecord(c) == hist[c].recs[Len(hist[c].recs)].bytes

\* C17 as stated: at every reader entry and every successful reader return
\* the spill buffer is absent or its content is exactly one complete
\* serialized record, whose length is size, also after records of differing
\* lengths were written into the same rewound buffer.
C17_ExactlyOneRecord ==
    \A c \in Conns :
        ReaderSound(c) /\ M(c).tmp # NULL =>
            /\ hist[c].recs # <<>>
            /\ Deref(M(c).tmp) = LastRecord(c)
            /\ Len(Deref(M(c).tmp)) = M(c).size

\* C17, amended: at every reader entry and every successful reader return
\* the spill buffer is absent (and then size is 0 and no record was
\* serialized) or its first size bytes are exactly one complete serialized
\* record, the last one serialized; bytes of a longer earlier record may
\* follow them, the buffer being rewound and not truncated.
C17_RecordAtStart ==
    \A c \in Conns :
        ReaderSound(c) =>
            IF M(c).tmp = NULL
            THEN M(c).size = 0 /\ hist[c].recs = <<>>
            ELSE /\ hist[c].recs # <<>>
                 /\ M(c).size = Len(LastRecord(c))
                 /\ M(c).size <= Len(Deref(M(c).tmp))
                 /\ SubSeq(Deref(M(c).tmp), 1, M(c).size) = LastRecord(c)

\* The spill buffer holds a record shorter than the one written before it
C17_Witness ==
    \E c \in Conns :
        /\ ReaderSound(c) /\ M(c).tmp # NULL
        /\ Len(hist[c].recs) = 2
        /\ Len(hist[c].recs[1].bytes) > Len(hist[c].recs[2].bytes)
        /\ M(c).size = Len(hist[c].recs[2].bytes)

----------------------------------------------------------------------------
(* C18 *)

\* C18 as stated: in every state of a connection from the moment the
\* Entries handler has accepted the request until the completion callback,
\* also after records have been emitted, discrete implies that the cursor
\* is non-empty and n_entries = 1.
C18_DiscreteKeepsOne ==
    \A c \in Conns :
        EntriesStream(c) /\ M(c).discrete =>
            /\ M(c).cursor # NULL /\ Deref(M(c).cursor) # <<>>
            /\ M(c).n_entries = 1

\* C18, amended: in every such state discrete implies that the cursor is
\* non-empty and that n_entries_set is true, n_entries being 1 until the
\* reader has found the cursor's entry and counted it, and 0 from then on,
\* as it is once the record is emitted or its serialization has failed.
C18_DiscreteOneThenNone ==
    \A c \in Conns :
        EntriesStream(c) /\ M(c).discrete =>
            /\ M(c).cursor # NULL /\ Deref(M(c).cursor) # <<>>
            /\ M(c).n_entries_set
            /\ hist[c].count = 1
            /\ Len(hist[c].recs) <= 1
            /\ M(c).n_entries \in {0, 1}
            /\ hist[c].recs # <<>> => M(c).n_entries = 0
            /\ pc[c] # "err" => M(c).n_entries = 1 - Len(hist[c].recs)

\* A discrete stream has emitted its record, and then ended
C18_Witness ==
    \E c \in Conns :
        /\ EntriesStream(c) /\ M(c).discrete /\ pc[c] = "eos"
        /\ Len(hist[c].recs) = 1
        /\ M(c).n_entries = 0

----------------------------------------------------------------------------
(* C19 *)

\* C19 as stated: in every reachable Request State n_entries_set implies
\* n_entries >= 1: a Range count of 0 is rejected at parse time with
\* n_entries_set left false, and no later step brings n_entries below 1
\* while n_entries_set is true.
C19_CountStaysPositive ==
    \A c \in Conns :
        meta[c] # NULL /\ M(c).n_entries_set => M(c).n_entries >= 1

\* C19, amended: n_entries_set implies n_entries >= 1 when the handler
\* installs the reader, a Range count of 0 being rejected at parse time with
\* n_entries_set left false; the reader then takes 1 from n_entries for every
\* entry it counts, down to 0 and never below.
C19_CountNeverNegative ==
    \A c \in Conns :
        /\ meta[c] # NULL /\ M(c).n_entries_set =>
               /\ M(c).n_entries >= 0
               /\ ~EntriesStream(c) => M(c).n_entries >= 1
               /\ EntriesStream(c) =>
                      /\ hist[c].count >= 1
                      /\ M(c).n_entries <= hist[c].count
                      /\ pc[c] # "err" =>
                             M(c).n_entries = hist[c].count - Len(hist[c].recs)
        /\ EntriesAnswered(c) /\ req[c].range = EntriesRange(<<"a", ":", "0">>) =>
               /\ ~M(c).n_entries_set
               /\ pc[c] = "queued"
               /\ resp[c].status # MHD_HTTP_OK

\* A stream with a count of 1 has emitted its record and ended, n_entries
\* being 0
C19_Witness ==
    \E c \in Conns :
        /\ EntriesStream(c) /\ pc[c] = "eos" /\ ~M(c).discrete
        /\ M(c).n_entries_set /\ hist[c].count = 1
        /\ Len(hist[c].recs) = 1
        /\ M(c).n_entries = 0

----------------------------------------------------------------------------
(* C20 *)

\* The handler of a URL that reads the journal (/entries, /fields/X,
\* /machine) has answered the connection
JournalRequestAnswered(c) ==
    /\ meta[c] # NULL /\ resp[c] # NoResponse
    /\ \/ req[c].url \in {<<"entries">>, <<"machine">>}
       \/ Len(req[c].url) = 2 /\ req[c].url[1] = "fields"

----------------------------------------------------------------------------
(* C21 *)

\* The journal handle as the Entries handler seeded it: on the cursor, else
\* at the head for a skip that is not negative, else at the tail
SeededHandle(c) ==
    [J(c) EXCEPT !.loc =
        IF M(c).cursor # NULL
        THEN [type |-> "seek", id |-> CursorId(Deref(M(c).cursor))]
        ELSE IF hist[c].skip >= 0 THEN [type |-> "head", id |-> 0]
        ELSE [type |-> "tail", id |-> 0]]

\* Entry i is where a move of n entries from the seeded handle ends on log
\* L, forward or backward: the n-th entry in that direction, or the last
\* one there is when there are fewer
ForwardBy(c, L, n, i) ==
    LET A == Ahead(SeededHandle(c), L) IN
    i \in A /\ Cardinality({x \in A : x <= i}) = Min(n, Cardinality(A))

BackwardBy(c, L, n, i) ==
    LET B == Behind(SeededHandle(c), L) IN
    i \in B /\ Cardinality({x \in B : x >= i}) = Min(n, Cardinality(B))

\* C21: the signed skip is applied to the first successful advance only:
\* that advance moves backward by |n_skip| + 1 if n_skip < 0, forward by
\* n_skip + 1 if n_skip > 0 and forward by 1 otherwise (as far as there are
\* entries); n_skip is zero from the first emitted record on, so that every
\* later advance moves forward by exactly one entry; and an advance that
\* found no entry leaves n_skip as it was for the retry.
C21_SkipAppliedOnce ==
    \A c \in Conns :
        EntriesStream(c) =>
            /\ hist[c].recs # <<>> =>
                   /\ M(c).n_skip = 0
                   /\ \E n \in hist[c].start..hist[c].seen :
                          LET L == SubSeq(journal, 1, n) IN
                          IF hist[c].skip < 0
                          THEN BackwardBy(c, L, (0 - hist[c].skip) + 1, Ids(c)[1])
                          ELSE ForwardBy(c, L, hist[c].skip + 1, Ids(c)[1])
                   /\ \A k \in 2..Len(Ids(c)) :
                          Ids(c)[k] =
                              SetMin({i \in Visible(J(c), journal) : i > Ids(c)[k - 1]})
            /\ hist[c].recs = <<>> /\ pc[c] # "err" => M(c).n_skip = hist[c].skip

\* A stream seeded on the cursor of the second entry with a skip of -1 emitted
\* the first entry, and then the second
C21_Witness ==
    \E c \in Conns :
        /\ EntriesStream(c)
        /\ req[c].range = EntriesRange(<<"b", ":", "-", "1", ":", "2">>)
        /\ hist[c].skip = -1
        /\ Ids(c) = <<1, 2>>

----------------------------------------------------------------------------
(* C22 *)

\* C22: the Entries handler seeds the journal position exactly once before
\* it installs the reader: on the cursor if a cursor is set, whatever the
\* sign of n_skip, else at the head if n_skip >= 0, else at the tail; when
\* the seek fails the request is answered with 400 (with the canned 503 when
\* the error response cannot be allocated) and the reader is never
\* installed.
C22_SeededOnce ==
    \A c \in Conns :
        /\ EntriesStream(c) =>
               /\ hist[c].seeks = 1
               /\ resp[c].status = MHD_HTTP_OK
               /\ M(c).cursor # NULL => IsCursor(Deref(M(c).cursor))
               /\ J(c).loc.type # "at" => J(c).loc = SeededHandle(c).loc
        /\ EntriesAnswered(c) =>
               /\ hist[c].seeks <= 1
               /\ M(c).cursor # NULL /\ ~IsCursor(Deref(M(c).cursor)) =>
                      /\ pc[c] = "queued"
                      /\ hist[c].recs = <<>>
                      /\ resp[c].status \in
                             {MHD_HTTP_BAD_REQUEST, MHD_HTTP_SERVICE_UNAVAILABLE}
                      /\ hist[c].seeks = 1 /\ ~hist[c].oom =>
                             /\ resp[c].status = MHD_HTTP_BAD_REQUEST
                             /\ resp[c].body = "Failed to seek in journal.\n"

\* A request with a cursor and a negative skip was seeded on the cursor
C22_Witness ==
    \E c \in Conns :
        /\ EntriesStream(c) /\ pc[c] = "entries" /\ hist[c].recs = <<>>
        /\ hist[c].seeks = 1
        /\ req[c].range = EntriesRange(<<"b", ":", "-", "1", ":", "2">>)
        /\ J(c).loc = [type |-> "seek", id |-> 2]

----------------------------------------------------------------------------
(* C23 *)

\* What a reader call the runtime can make next on the connection returns:
\* a new call with offset pos and a buffer of max bytes, or the call blocked
\* in the journal wait going on
PumpCall(c, pos, max, fault) ==
    IF pc[c] = "fields"
    THEN request_reader_fields(M(c), pos - M(c).delta, max, journal, fault, <<>>)
    ELSE IF pc[c] = "wait"
    THEN request_reader_entries(M(c), call[c].pos, call[c].max, journal, fault, <<>>)
    ELSE request_reader_entries(M(c), pos - M(c).delta, max, journal, fault, <<>>)

PumpFaults(c) == IF pc[c] = "fields" THEN FieldsFaults ELSE EntriesFaults

\* Whether the call comes to the operation that fails, ok being what the
\* call returns when nothing fails: the copy is reached by the calls that
\* return bytes, the serializer and the position query by those that
\* serialize a record, the creation of the spill buffer by the first of
\* them, the advance by those that go past the count test, the wait by those
\* that block, the cursor test by the discrete ones that reached an entry
FailureHappens(c, ok, fault) ==
    CASE fault \in {"fseeko", "fread"} -> ok.ret = "DATA"
      [] fault \in {"serialize", "ftello"} -> ok.emitted # <<>>
      [] fault = "tmpfile" -> M(c).tmp = NULL /\ ok.emitted # <<>>
      [] fault \in {"advance", "enumerate"} ->
             \/ ok.emitted # <<>>
             \/ ok.cause \in {"exhausted", "discrete"}
             \/ ok.ret = "WAIT"
      [] fault = "wait" -> ok.ret = "WAIT"
      [] fault = "test_cursor" ->
             M(c).discrete /\ (ok.emitted # <<>> \/ ok.cause = "discrete")
      [] OTHER -> FALSE

\* C23: a reader call in which the journal reader (advance, wait, cursor
\* test, enumerate), the spill buffer (create, seek, read, position query)
\* or the serializer fails returns the error marker, never end-of-stream or
\* bytes; and a connection is in the error state only after such a return.
C23_FailureIsError ==
    \A c \in Conns :
        /\ pc[c] \in {"entries", "fields", "wait"} =>
               \A pos \in Offsets(c), max \in 1..MaxBuf, fault \in PumpFaults(c) :
                   LET ok == PumpCall(c, pos, max, "none")
                       res == PumpCall(c, pos, max, fault)
                   IN
                   (pc[c] = "wait" \/ pos >= M(c).delta)
                   /\ FailureHappens(c, ok, fault) =>
                       /\ res.ret = MHD_CONTENT_READER_END_WITH_ERROR
                       /\ res.data = <<>>
                       /\ res.cause = "error"
        /\ pc[c] = "err" <=> (meta[c] # NULL /\ hist[c].cause = "error")
        /\ pc[c] = "err" => hist[c].k = 0

\* A reader call failed after the connection had been given bytes of a
\* record
C23_Witness ==
    \E c \in Conns :
        /\ pc[c] = "err" /\ hist[c].cause = "error"
        /\ hist[c].out # <<>> /\ Len(hist[c].out) < Len(Stream(c))

----------------------------------------------------------------------------
(* C24 *)

\* The absolute offset of a call the runtime can make next: pos, or for the
\* call blocked in the journal wait the offset it was made with
PumpOffset(c, pos) == IF pc[c] = "wait" THEN M(c).delta + call[c].pos ELSE pos

PumpMax(c, max) == IF pc[c] = "wait" THEN call[c].max ELSE max

\* The bytes of the virtual stream at the absolute offsets [pos, pos + k)
StreamAt(stream, pos, k) == SubSeq(stream, pos + 1, pos + k)

\* C24: every reader call that returns a byte count k for offset pos
\* returns exactly the bytes at the absolute offsets [pos, pos + k) of the
\* virtual stream (the serialized records concatenated in emission order),
\* with k = min(delta + size - pos, max); the bytes of one call come from a
\* single record, the last one serialized, also when pos has jumped past
\* whole records since the call before.
C24_BytesOfStream ==
    \A c \in Conns :
        /\ ReaderInstalled(c) =>
               \A pos \in Offsets(c), max \in 1..MaxBuf :
                   LET res == PumpCall(c, pos, max, "none")
                       at == PumpOffset(c, pos)
                       k == Len(res.data)
                       recs == hist[c].recs \o res.emitted
                   IN
                   (pc[c] = "wait" \/ pos >= M(c).delta) /\ res.ret = "DATA" =>
                       /\ res.data = StreamAt(Concat(recs), at, k)
                       /\ k = Min(res.m.delta + res.m.size - at, PumpMax(c, max))
                       /\ recs # <<>>
                       /\ res.m.delta = Len(Concat(SubSeq(recs, 1, Len(recs) - 1)))
                       /\ res.m.size = Len(recs[Len(recs)].bytes)
                       /\ res.m.delta <= at
                       /\ at + k <= res.m.delta + res.m.size
        /\ Copied(c) =>
               /\ SubSeq(hist[c].out, Len(hist[c].out) - hist[c].k + 1, Len(hist[c].out))
                      = StreamAt(Stream(c), hist[c].pos, hist[c].k)
               /\ M(c).delta = Len(Stream(c)) - Len(LastRecord(c))
               /\ M(c).size = Len(LastRecord(c))

\* The first call that returned bytes had an offset past the whole first
\* record, and returned bytes of the second
C24_Witness ==
    \E c \in Conns :
        /\ Copied(c) /\ pc[c] = "entries"
        /\ Len(hist[c].recs) = 2
        /\ hist[c].recs[1].bytes # <<>>
        /\ hist[c].out # <<>> /\ Len(hist[c].out) = hist[c].k
        /\ hist[c].pos >= M(c).delta

----------------------------------------------------------------------------
(* C25 *)

\* Any journal and any request, the runtime calling the readers with the
\* offset that follows the bytes returned
DrainInit ==
    /\ journal \in Journals
    /\ req \in [Conns -> Requests]
    /\ \A c \in Conns : c > 1 => req[c] = Request("GET", <<"">>, NULL, NULL, <<>>)
    /\ pc = [c \in Conns |-> IF c = 1 THEN "new" ELSE "absent"]
    /\ meta = [c \in Conns |-> NULL]
    /\ resp = [c \in Conns |-> NoResponse]
    /\ call = [c \in Conns |-> NoCall]
    /\ hist = [c \in Conns |-> [NoHistory EXCEPT !.jumps = MaxJumps]]

\* The runtime keeps pulling: weak fairness of ReaderEntries(c) and of
\* ReaderFields(c), WF_vars(A) being written out as for Fair(c).  A reader
\* call always changes the state: it returns at least one byte, blocks or
\* ends the stream.
Pulls(c) ==
    /\ []<>(pc[c] # "entries") \/ []<><<ReaderEntries(c)>>_vars
    /\ []<>(pc[c] # "fields") \/ []<><<ReaderFields(c)>>_vars

DrainSpec == DrainInit /\ [][Next]_vars /\ \A c \in Conns : Pulls(c)

\* No reader call the runtime can make blocks or advances the journal more
\* often than the journal has entries, unless the request follows
CallsTerminate(c) ==
    /\ pc[c] = "wait" => M(c).follow /\ req[c].url = <<"entries">>
    /\ pc[c] \in {"entries", "fields"} /\ ~M(c).follow =>
           \A max \in 1..MaxBuf, fault \in PumpFaults(c) :
               LET res == PumpCall(c, Contiguous(c), max, fault) IN
               /\ res.ret \in {"DATA", MHD_CONTENT_READER_END_OF_STREAM,
                                MHD_CONTENT_READER_END_WITH_ERROR}
               /\ Len(res.emitted) <= Len(journal)

\* C25: with follow = false and a finite journal, every reader call
\* terminates (with a byte count, end-of-stream or the error marker) after
\* advancing the journal a finite number of times, and a runtime that keeps
\* pulling with each offset equal to the total of the bytes already returned
\* eventually receives end-of-stream or the error marker, unless the
\* connection ends first; only a request that follows blocks in the journal
\* wait.
C25_Drains ==
    /\ [](\A c \in Conns : CallsTerminate(c))
    /\ \A c \in Conns :
           (pc[c] \in {"entries", "fields"} /\ ~M(c).follow)
               ~> (pc[c] \in {"eos", "err", "freed"})

\* A request that does not follow was given two records whole and then
\* end-of-stream
C25_Witness ==
    \E c \in Conns :
        /\ pc[c] = "eos" /\ req[c].url = <<"entries">> /\ ~M(c).follow
        /\ Len(hist[c].recs) = 2
        /\ Len(hist[c].out) >= 3
        /\ hist[c].out = Stream(c)
        /\ hist[c].cause = "exhausted"

----------------------------------------------------------------------------
(* C26 *)

\* C26: a reader call never returns a byte count of 0: every call returns
\* a count k with 1 <= k <= max, end-of-stream or the error marker (or
\* blocks in the journal wait); a record that serializes to zero bytes is
\* left inside the same call, which goes on to the next record, and is
\* still counted against n_entries.
C26_NeverZeroBytes ==
    \A c \in Conns :
        /\ ReaderInstalled(c) =>
               \A pos \in Offsets(c), max \in 1..MaxBuf :
                   LET res == PumpCall(c, pos, max, "none")
                       k == Len(res.data)
                   IN
                   pc[c] = "wait" \/ pos >= M(c).delta =>
                       /\ res.ret \in {"DATA", "WAIT",
                                        MHD_CONTENT_READER_END_OF_STREAM,
                                        MHD_CONTENT_READER_END_WITH_ERROR}
                       /\ res.ret = "DATA" => k >= 1 /\ k <= PumpMax(c, max)
                       /\ res.ret # "DATA" => k = 0
                       /\ res.ret = "DATA" /\ res.emitted # <<>> =>
                              res.emitted[Len(res.emitted)].bytes # <<>>
                       /\ pc[c] # "fields" /\ M(c).n_entries_set =>
                              res.m.n_entries = M(c).n_entries - Len(res.emitted)
        /\ pc[c] \in {"entries", "fields"} /\ hist[c].recs # <<>> =>
               hist[c].k >= 1 /\ hist[c].k <= MaxBuf
        /\ pc[c] \in {"wait", "eos", "err"} => hist[c].k = 0

\* The first call left a record of zero bytes and returned bytes of the
\* next one; both were counted
C26_Witness ==
    \E c \in Conns :
        /\ pc[c] = "entries" /\ ~M(c).follow
        /\ hist[c].jumps = 0 /\ hist[c].pos = 0 /\ hist[c].k >= 1
        /\ Len(hist[c].recs) = 2
        /\ hist[c].recs[1].bytes = <<>>
        /\ hist[c].recs[2].bytes # <<>>
        /\ hist[c].count = 2 /\ M(c).n_entries_set /\ M(c).n_entries = 0

----------------------------------------------------------------------------
(* C27 *)

\* What a reader call may leave alone: delta, size, n_entries, n_skip, the
\* content of the spill buffer and the journal position
PumpFrame(c) ==
    <<M(c).delta, M(c).size, M(c).n_entries, M(c).n_skip, M(c).tmp, J(c).loc>>

\* A step in which request_reader_entries() ran (or went on after the
\* journal wait) on the connection; hist[c].pos is then the offset of the
\* call
EntriesCall(c) ==
    /\ req[c].url = <<"entries">>
    /\ pc[c] \in {"entries", "wait"}
    /\ pc'[c] \in {"entries", "wait", "eos", "err"}

\* The records serialized in the step
Serialized(c) == Len(hist'[c].recs) - Len(hist[c].recs)

\* A call made with an offset inside the record in the spill buffer
InsideRecord(c) ==
    /\ pc[c] = "entries"
    /\ M(c).delta <= hist'[c].pos
    /\ hist'[c].pos < M(c).delta + M(c).size

\* C27 as stated: a reader call whose offset lies inside the current
\* record (delta <= pos < delta + size) leaves delta, size, n_entries,
\* n_skip, the spill buffer and the journal position unchanged, and so does a
\* call that returns end-of-stream because n_entries is 0; the journal
\* advances and n_entries decreases by exactly one only when a new record is
\* serialized.  (Calls that return the error marker are left out.)
C27_FrameOfEveryCall ==
    [][\A c \in Conns : EntriesCall(c) /\ pc'[c] # "err" =>
          /\ InsideRecord(c) => PumpFrame(c)' = PumpFrame(c)
          /\ pc'[c] = "eos" /\ hist'[c].cause = "count" =>
                 PumpFrame(c)' = PumpFrame(c)
          /\ J(c)'.loc # J(c).loc => Serialized(c) > 0
          /\ M(c)'.n_entries = M(c).n_entries
                 - (IF M(c).n_entries_set THEN Serialized(c) ELSE 0)
      ]_vars

\* C27, amended: a reader call whose offset lies inside the current record
\* leaves delta, size, n_entries, n_skip, the spill buffer and the journal
\* position unchanged, and so does a call that returns end-of-stream on the
\* count test without having serialized a record; in a call that does not
\* return the error marker the journal position changes only when a record
\* is serialized or the entry reached fails the cursor test of a discrete
\* request, every record serialized moves the journal position, and
\* n_entries (when set) decreases by one for each record serialized.
C27_FrameOfQuietCalls ==
    [][\A c \in Conns : EntriesCall(c) =>
          /\ InsideRecord(c) => PumpFrame(c)' = PumpFrame(c)
          /\ pc'[c] = "eos" /\ hist'[c].cause = "count" /\ Serialized(c) = 0 =>
                 PumpFrame(c)' = PumpFrame(c)
          /\ pc'[c] # "err" =>
                 /\ J(c)'.loc # J(c).loc =>
                        Serialized(c) > 0 \/ hist'[c].cause = "discrete"
                 /\ Serialized(c) > 0 => J(c)'.loc # J(c).loc
                 /\ M(c)'.n_entries = M(c).n_entries
                        - (IF M(c).n_entries_set THEN Serialized(c) ELSE 0)
      ]_vars

\* A counted request was given the start of its first record, and then
\* bytes from the middle of that record by a second call
C27_Witness ==
    \E c \in Conns :
        /\ pc[c] = "entries" /\ req[c].url = <<"entries">>
        /\ hist[c].jumps = 0 /\ hist[c].k >= 1
        /\ hist[c].pos > M(c).delta
        /\ Len(hist[c].recs) = 1
        /\ M(c).n_entries_set /\ hist[c].count = 2 /\ M(c).n_entries = 1

====
